---------------------------- MODULE Spec2Model ----------------------------
(***************************************************************************)
(* LOG4CPP: the rotating file sink (Src/FileRotatingHandler.cpp) and the   *)
(* logger dispatch core (Src/Logger.cpp).                                  *)
(*                                                                         *)
(* Text is modelled by TLA+ strings: a rendered line is the string the     *)
(* formatter returns with "\n" appended, and its byte length is Len of     *)
(* that string.  A file is the sequence of the strings written to it; its  *)
(* on-disk size is the sum of their lengths.                               *)
(*                                                                         *)
(* SpecSink    threads calling FileRotatingHandler::write on one sink      *)
(* SpecLogger  threads calling the Logger's dispatch and registry calls    *)
(***************************************************************************)
EXTENDS Integers, Sequences, FiniteSets, TLC

(***************************************************************************)
(* Bounds of the model.                                                    *)
(***************************************************************************)
NThreads == 2
MaxWrites == 3
MaxBackupsCfg == 3
MaxFailures == 2
MaxCalls == 2

Threads == 1..NThreads
\* backup files <base>.0 .. <base>.MaxIdx are tracked
MaxIdx == MaxBackupsCfg + 1
BackupIdx == 0..MaxIdx
\* the path basePath itself
Base == -1
Paths == {Base} \cup BackupIdx

\* the configurations a sink is constructed with
MaxFileSizes == {0, 4}
BackupCounts == {0, 1, MaxBackupsCfg}
Messages == {"a", "bb"}
\* content found on disk before the sink is constructed
OldLine == "o\n"

VARIABLES
    \* ---- the file system below the sink ----
    fs,            \* fs[Base]: the file at basePath; fs[i]: at basePath + "." + i
    \* ---- FileRotatingHandler::Impl ----
    constructed,   \* the sink object exists
    maxFileSize,
    maxBackups,
    formatter,
    isOpen,        \* currentFile.is_open()
    currentSize,
    fileMutex,     \* 0: free, t: held by thread t
    \* ---- one write() call per thread ----
    pc,
    entry,         \* the LogEntry argument
    logLine,       \* the local logLine
    \* ---- history ----
    fs0,           \* the file system before the sink was constructed
    issued,        \* the entries of the write calls made so far, in call order
    written,       \* the lines put to the stream, in order
    dropped,       \* the chunks removed from disk by remove/rename
    nRotations,    \* executions of rotate()
    nFailed,       \* the remove/rename/open calls that have failed
    cerr,          \* the messages rotate() has put on std::cerr
    nSizeCalls,    \* getCurrentSize() calls made so far
    \* ---- Logger::Impl ----
    currentLevel,
    handlers,
    handlersMutex,
    lpc,           \* position of each thread in its logger call
    larg,          \* the handler argument of a setHandler call in progress
    lentry,        \* the LogEntry built by writeLog
    lidx,          \* index of the next handler in the fan-out
    delivered,     \* the handler invocations so far, in order
    lout,          \* how the handler call a thread made last has ended
    \* ---- history ----
    nCalls,        \* logger calls made so far
    decided,       \* the level filter's decisions so far
    escaped,       \* the exceptions that have left writeLog
    ops,           \* the registry calls made so far, in the order of their locks
    overtaken,     \* <<a, b>>: dispatch b took the mutex while a, stamped earlier, waited
    \* ---- the singleton: Logger::instance, getInstance, initialize ----
    sharedMutex,   \* TRUE: one instanceMutex (Logger.hpp); FALSE: one static
                   \* initMutex in each function (Logger.cpp)
    loggers,       \* the Logger objects constructed so far: [name, level]
    instance,      \* 0: nullptr; i: points to loggers[i]
    initMutex,     \* initMutex[f]: owner of the mutex function f locks, or 0
    spc,           \* position of each thread in getInstance / initialize
    sarg,          \* the arguments of an initialize call in progress
    \* ---- history ----
    returned,      \* the pointers getInstance has returned
    nSCalls,       \* getInstance and initialize calls made so far
    initCalls,     \* the initialize calls made, each with the instance it found
    \* ---- registerFileRotatingHandler ----
    static3,       \* the static handler of the overload without formatter
    static4,       \* the static handler of the overload with formatter
    regHandlers,   \* the write bindings registered with the Logger, in order
    regFiles,      \* regFiles[path]: the file at path
    \* ---- history ----
    requested,     \* the (path, formatter) of each registration call, in order
    regLogged,     \* the entries dispatched, each with the registrations before it
    \* ---- getCurrentTimestamp ----
    tsMicros,      \* us_total: the microseconds within the second
    tsFraction,    \* what is written after the seconds, "" before the call
    \* ---- the C adapter ----
    g_c_handler,   \* the static CLogHandler, 0 for nullptr
    cpc,           \* position of each thread in logger_register_handler
    carg,          \* the handler argument of a call in progress
    \* ---- history ----
    cregs,         \* the argument of each logger_register_handler call, in order
    cpushed,       \* the arguments whose wrapper has been registered, in order
    cinvoked       \* the calls of C handlers: the handler and the record's id

sinkVars == <<fs, constructed, maxFileSize, maxBackups, formatter,
              isOpen, currentSize, fileMutex, pc, entry, logLine,
              fs0, issued, written, dropped, nRotations, nFailed, cerr, nSizeCalls>>
loggerVars == <<currentLevel, handlers, handlersMutex, lpc, larg, lentry, lidx,
                delivered, nCalls, decided, lout, escaped, ops, overtaken>>
singletonVars == <<sharedMutex, loggers, instance, initMutex, spc, sarg, returned,
                   nSCalls, initCalls>>
registerVars == <<static3, static4, regHandlers, regFiles, requested, regLogged>>
stampVars == <<tsMicros, tsFraction>>
adapterVars == <<g_c_handler, cpc, carg, cregs, cpushed, cinvoked>>
vars == <<sinkVars, loggerVars, singletonVars, registerVars, stampVars, adapterVars>>

\* what an action of one component leaves alone
nonSinkVars == <<loggerVars, singletonVars, registerVars, stampVars, adapterVars>>
nonLoggerVars == <<sinkVars, singletonVars, registerVars, stampVars, adapterVars>>
nonSingletonVars == <<sinkVars, loggerVars, registerVars, stampVars, adapterVars>>
nonRegisterVars == <<sinkVars, loggerVars, singletonVars, stampVars, adapterVars>>
nonStampVars == <<sinkVars, loggerVars, singletonVars, registerVars, adapterVars>>
nonAdapterVars == <<sinkVars, singletonVars, registerVars, stampVars>>

(***************************************************************************)
(* Files                                                                   *)
(***************************************************************************)
Absent == [exists |-> FALSE, data |-> <<>>]
EmptyFile == [exists |-> TRUE, data |-> <<>>]
FileOf(d) == [exists |-> TRUE, data |-> d]

RECURSIVE SumLen(_)
SumLen(s) == IF s = <<>> THEN 0 ELSE Len(Head(s)) + SumLen(Tail(s))

\* stat(path) == 0
fileExists(f) == f.exists

\* st_size, or 0 when stat fails
getFileSize(f) == IF f.exists THEN SumLen(f.data) ELSE 0

(***************************************************************************)
(* enum class LogLevel                                                     *)
(***************************************************************************)
TRACE == 0
DEBUG3 == 1
DEBUG2 == 2
DEBUG1 == 3
INFO == 4
WARN == 5
ERROR == 6
LogLevels == TRACE..ERROR

levelToString(level) ==
    CASE level = TRACE -> "TRACE"
      [] level = DEBUG3 -> "DEBUG3"
      [] level = DEBUG2 -> "DEBUG2"
      [] level = DEBUG1 -> "DEBUG1"
      [] level = INFO -> "INFO"
      [] level = WARN -> "WARN"
      [] level = ERROR -> "ERROR"
      [] OTHER -> "UNKNOWN"

\* the sinks a test registers: Logger::defaultConsoleHandler and customHandler
HandlerIds == {"console", "custom"}
NoArg == ""

(***************************************************************************)
(* LogEntry and the formatters                                             *)
(***************************************************************************)
\* operator<< of a decimal digit
Digit(d) ==
    CASE d = 0 -> "0" [] d = 1 -> "1" [] d = 2 -> "2" [] d = 3 -> "3" [] d = 4 -> "4"
      [] d = 5 -> "5" [] d = 6 -> "6" [] d = 7 -> "7" [] d = 8 -> "8" [] d = 9 -> "9"

RECURSIVE ToDecimal(_)
\* operator<< of a non-negative integer, no width set
ToDecimal(n) == IF n < 10 THEN Digit(n) ELSE ToDecimal(n \div 10) \o Digit(n % 10)

RECURSIVE PadLeft(_, _, _)
\* std::setw(w) with fill c, right-adjusted (the default)
PadLeft(str, w, c) == IF Len(str) >= w THEN str ELSE PadLeft(c \o str, w, c)

RECURSIVE PadRight(_, _, _)
\* std::left << std::setw(w) with fill c
PadRight(str, w, c) == IF Len(str) >= w THEN str ELSE PadRight(str \o c, w, c)

\* a timestamp as getCurrentTimestamp writes it when the milliseconds have
\* three digits
SampleTimestamp == "2024-01-02 03:04:05.678009"

LogEntry(lvl, fn, ln, msg) ==
    [timestamp |-> SampleTimestamp, level |-> lvl, component |-> "Logger",
     function |-> fn, lineNumber |-> ln, message |-> msg]
NoEntry == LogEntry("", "", 0, "")

messageOnly(e) == e.message
compact(e) == ("[" \o e.level \o "] ") \o e.message
\* e.timestamp.substr(11, 8)
timeAndLevel(e) ==
    "[" \o SubSeq(e.timestamp, 12, 19) \o "] [" \o e.level \o "] " \o e.message
\* FileRotatingHandler::Impl::defaultFormatter
defaultFormatter(e) ==
    "[" \o e.timestamp \o "]"
        \o "[" \o PadRight(e.level, 6, " ") \o "]"
        \o "[" \o e.component \o "]"
        \o "[" \o e.function \o ":" \o ToDecimal(e.lineNumber) \o "] "
        \o e.message
\* Logger::defaultConsoleHandler: the line put on std::cout
defaultConsoleLine(e) ==
    "[" \o e.timestamp \o "]"
        \o "[" \o PadRight(e.level, 6, " ") \o "]"
        \o "[" \o e.component \o "]"
        \o "[" \o PadRight(e.function \o ":" \o ToDecimal(e.lineNumber), 20, " ") \o "] "
        \o e.message
Formatters == {"messageOnly", "compact"}
Format(fmt, e) ==
    CASE fmt = "compact" -> compact(e)
      [] fmt = "timeAndLevel" -> timeAndLevel(e)
      [] fmt = "default" -> defaultFormatter(e)
      [] OTHER -> messageOnly(e)


(***************************************************************************)
(* The file system calls the sink makes.  A disk value d carries the files,*)
(* the chunks removed from disk so far and the number of failed calls.     *)
(* ok is the outcome of the call (FALSE: it fails and changes nothing).    *)
(***************************************************************************)
Disk(files) == [files |-> files, drop |-> <<>>, failed |-> 0]

\* std::remove(path)
FsRemove(d, p, ok) ==
    IF ok
    THEN [d EXCEPT !.files = [d.files EXCEPT ![p] = Absent],
                   !.drop = d.drop \o d.files[p].data]
    ELSE [d EXCEPT !.failed = d.failed + 1]

\* std::rename(p, q): an existing q is replaced
FsRename(d, p, q, ok) ==
    IF ok
    THEN [d EXCEPT !.files = [d.files EXCEPT ![q] = d.files[p], ![p] = Absent],
                   !.drop = d.drop \o d.files[q].data]
    ELSE [d EXCEPT !.failed = d.failed + 1]

\* currentFile.open(basePath, std::ios::app): creates the file when absent,
\* keeps its content otherwise
FsOpenApp(d, ok) ==
    IF ok
    THEN [d EXCEPT !.files = [d.files EXCEPT
                     ![Base] = IF d.files[Base].exists THEN d.files[Base] ELSE EmptyFile]]
    ELSE [d EXCEPT !.failed = d.failed + 1]

(***************************************************************************)
(* FileRotatingHandler::Impl                                               *)
(***************************************************************************)
SeedSizeZero(f) == 0

\* openFile(): the size the byte counter starts from
SeedSize(f) == IF fileExists(f) THEN getFileSize(f) ELSE 0

\* rotate(): delete the oldest backup
DeleteOldest(d, K, rmOk) ==
    IF fileExists(d.files[K]) THEN FsRemove(d, K, rmOk) ELSE d

\* rotate(): one iteration of the shift loop
ShiftStep(d, i, failRen) ==
    IF fileExists(d.files[i]) THEN FsRename(d, i, i + 1, i \notin failRen) ELSE d

RECURSIVE ShiftDown(_, _, _)
ShiftDown(d, i, failRen) ==
    IF i < 1 THEN d ELSE ShiftDown(ShiftStep(d, i, failRen), i - 1, failRen)

RECURSIVE ShiftUp(_, _, _, _)
ShiftUp(d, i, K, failRen) ==
    IF i > K - 1 THEN d ELSE ShiftUp(ShiftStep(d, i, failRen), i + 1, K, failRen)

ShiftAscending(d, K, failRen) == ShiftUp(d, 1, K, failRen)

ShiftFromK(d, K, failRen) == ShiftDown(d, K, failRen)

\* rotate(): for (int i = maxBackups - 1; i >= 1; --i)
ShiftBackups(d, K, failRen) == ShiftDown(d, K - 1, failRen)

\* a retirement that copies <base> to <base>.1 and leaves <base> as it is
RetireBaseByCopy(d, failRen) ==
    IF fileExists(d.files[Base])
    THEN [d EXCEPT !.files = [d.files EXCEPT ![1] = d.files[Base]],
                   !.drop = d.drop \o d.files[1].data]
    ELSE d

\* rotate(): rename the current file to <base>.1
RetireBase(d, failRen) ==
    IF fileExists(d.files[Base]) THEN FsRename(d, Base, 1, Base \notin failRen) ELSE d

\* rotate(): the file system calls of the try block, then the reopen
RotateDisk(files, K, rmOk, failRen, openOk) ==
    FsOpenApp(RetireBase(ShiftBackups(DeleteOldest(Disk(files), K, rmOk), K, failRen),
                         failRen),
              openOk)

NeedsRotationAtLimit(size, logSize, maxSize) == size + logSize >= maxSize

\* a check of the size reached before the pending line
NeedsRotationBeforeAdd(size, logSize, maxSize) == size > maxSize

\* a check of the tracked size alone, whatever the pending line
NeedsRotationWhenFull(size, logSize, maxSize) == size >= maxSize

\* a check that never rotates an empty file
NeedsRotationUnlessEmpty(size, logSize, maxSize) == size > 0 /\ size + logSize > maxSize

\* write(): if (currentSize + logSize > maxFileSize)
NeedsRotation(size, logSize, maxSize) == size + logSize > maxSize

\* the renames a rotation may attempt: Base -> .1 and .i -> .(i+1)
RenameSources == {Base} \cup (1..(MaxBackupsCfg - 1))

\* the failing calls among the outcomes drawn for one rotation
Failures(rmOk, failRen, openOk) ==
    (IF rmOk THEN 0 ELSE 1) + Cardinality(failRen) + (IF openOk THEN 0 ELSE 1)

\* rotate(), the try block: std::remove and std::rename are C library calls
\* that report a failure in their return value, which rotate() discards; no
\* statement of the block throws on a failed delete or rename
RotateThrows(rmOk, failRen) == FALSE

\* catch (const std::exception &e): the text put on std::cerr
RotateError == "Error rotating log files: "

\* some file system call of the sink has failed
fsFailed == nFailed > 0

(***************************************************************************)
(* Construction: Impl::Impl calls openFile() before the object is shared.  *)
(* openOk is the outcome of the open.                                      *)
(***************************************************************************)
Construct(maxSize, backups, fmt, openOk) ==
    /\ ~constructed
    /\ Failures(TRUE, {}, openOk) <= MaxFailures - nFailed
    /\ constructed' = TRUE
    /\ maxFileSize' = maxSize
    /\ maxBackups' = backups
    /\ formatter' = fmt
    /\ currentSize' = SeedSize(fs[Base])
    /\ LET d == FsOpenApp(Disk(fs), openOk)
       IN /\ fs' = d.files
          /\ nFailed' = nFailed + d.failed
    /\ isOpen' = openOk
    /\ UNCHANGED <<fs0, fileMutex, pc, entry, logLine, issued, written, dropped,
                   nRotations, cerr>>
    /\ UNCHANGED nSizeCalls
    /\ UNCHANGED nonSinkVars

(***************************************************************************)
(* FileRotatingHandler::write(entry), one thread's call step by step.      *)
(* The entry of a call is drawn when the thread gets fileMutex: nothing    *)
(* reads the argument of a thread that is still waiting.                   *)
(***************************************************************************)
\* write calls made so far, those waiting for fileMutex included
WriteCalls == Len(issued) + Cardinality({u \in Threads : pc[u] = "lock"})

\* write(entry) is called
WriteCallUpTo(t, limit) ==
    /\ constructed
    /\ pc[t] = "idle"
    /\ WriteCalls < limit
    /\ pc' = [pc EXCEPT ![t] = "lock"]
    /\ UNCHANGED <<fs, fs0, constructed, maxFileSize, maxBackups, formatter, isOpen,
                   currentSize, fileMutex, entry, logLine, issued, written, dropped,
                   nRotations, nFailed, cerr>>
    /\ UNCHANGED nSizeCalls
    /\ UNCHANGED nonSinkVars

WriteCall(t) == WriteCallUpTo(t, MaxWrites)

WriteLockNoWait(t, msg) ==
    /\ pc[t] = "lock"
    /\ fileMutex' = t
    /\ LET e == LogEntry(levelToString(INFO), "main", Len(issued) + 1, msg)
       IN /\ issued' = Append(issued, e)
          /\ entry' = [entry EXCEPT ![t] = e]
    /\ pc' = [pc EXCEPT ![t] = "check"]
    /\ UNCHANGED <<fs, fs0, constructed, maxFileSize, maxBackups, formatter, isOpen,
                   currentSize, logLine, written, dropped, nRotations, nFailed, cerr>>
    /\ UNCHANGED nSizeCalls
    /\ UNCHANGED nonSinkVars

\* std::lock_guard<std::mutex> lock(fileMutex)
WriteLock(t, msg) ==
    /\ pc[t] = "lock"
    /\ fileMutex = 0
    /\ fileMutex' = t
    /\ LET e == LogEntry(levelToString(INFO), "main", Len(issued) + 1, msg)
       IN /\ issued' = Append(issued, e)
          /\ entry' = [entry EXCEPT ![t] = e]
    /\ pc' = [pc EXCEPT ![t] = "check"]
    /\ UNCHANGED <<fs, fs0, constructed, maxFileSize, maxBackups, formatter, isOpen,
                   currentSize, logLine, written, dropped, nRotations, nFailed, cerr>>
    /\ UNCHANGED nSizeCalls
    /\ UNCHANGED nonSinkVars

\* a rotation that does not reset the tracked size
RotateKeepingSize(rmOk, failRen, openOk) ==
    LET d == RotateDisk(fs, maxBackups, rmOk, failRen, openOk)
    IN /\ fs' = d.files
       /\ cerr' = cerr
       /\ dropped' = dropped \o d.drop
       /\ nFailed' = nFailed + d.failed
       /\ currentSize' = currentSize
       /\ isOpen' = openOk
       /\ nRotations' = nRotations + 1

\* rotate(), with the outcomes of its file system calls
Rotate(rmOk, failRen, openOk) ==
    LET d == RotateDisk(fs, maxBackups, rmOk, failRen, openOk)
    IN /\ fs' = d.files
       /\ cerr' = IF RotateThrows(rmOk, failRen)
                  THEN Append(cerr, RotateError) ELSE cerr
       /\ dropped' = dropped \o d.drop
       /\ nFailed' = nFailed + d.failed
       /\ currentSize' = 0
       /\ isOpen' = openOk
       /\ nRotations' = nRotations + 1

\* format the line, then rotate if it does not fit
WriteCheck(t) ==
    /\ pc[t] = "check"
    /\ LET line == Format(formatter, entry[t]) \o "\n"
       IN /\ logLine' = [logLine EXCEPT ![t] = line]
          /\ IF NeedsRotation(currentSize, Len(line), maxFileSize)
             THEN \E rmOk \in BOOLEAN, openOk \in BOOLEAN, failRen \in SUBSET RenameSources :
                     /\ Failures(rmOk, failRen, openOk) <= MaxFailures - nFailed
                     /\ Rotate(rmOk, failRen, openOk)
             ELSE UNCHANGED <<fs, dropped, nFailed, currentSize, isOpen, nRotations, cerr>>
    /\ pc' = [pc EXCEPT ![t] = "put"]
    /\ UNCHANGED <<fs0, constructed, maxFileSize, maxBackups, formatter, fileMutex, entry,
                   issued, written>>
    /\ UNCHANGED nSizeCalls
    /\ UNCHANGED nonSinkVars

CountedNoNewline(size, line) == size + Len(line) - 1

\* currentSize += logSize
Counted(size, line) == size + Len(line)

\* a write that gives the line up once a file system call has failed
WritePutUnlessFailed(t) ==
    /\ pc[t] = "put"
    /\ IF isOpen /\ ~fsFailed
       THEN /\ fs' = [fs EXCEPT ![Base] = FileOf(Append(fs[Base].data, logLine[t]))]
            /\ written' = Append(written, logLine[t])
            /\ currentSize' = Counted(currentSize, logLine[t])
       ELSE UNCHANGED <<fs, written, currentSize>>
    /\ pc' = [pc EXCEPT ![t] = "unlock"]
    /\ UNCHANGED <<fs0, constructed, maxFileSize, maxBackups, formatter, isOpen,
                   fileMutex, entry, logLine, issued, dropped, nRotations, nFailed,
                   cerr>>
    /\ UNCHANGED nSizeCalls
    /\ UNCHANGED nonSinkVars

\* if (currentFile.is_open()) { currentFile << logLine; currentFile.flush();
\* currentSize += logSize; }
WritePut(t) ==
    /\ pc[t] = "put"
    /\ IF isOpen
       THEN /\ fs' = [fs EXCEPT ![Base] = FileOf(Append(fs[Base].data, logLine[t]))]
            /\ written' = Append(written, logLine[t])
            /\ currentSize' = Counted(currentSize, logLine[t])
       ELSE UNCHANGED <<fs, written, currentSize>>
    /\ pc' = [pc EXCEPT ![t] = "unlock"]
    /\ UNCHANGED <<fs0, constructed, maxFileSize, maxBackups, formatter, isOpen,
                   fileMutex, entry, logLine, issued, dropped, nRotations, nFailed,
                   cerr>>
    /\ UNCHANGED nSizeCalls
    /\ UNCHANGED nonSinkVars

\* a write() that returns with fileMutex still held
WriteReturnLocked(t) ==
    /\ pc[t] = "unlock"
    /\ pc' = [pc EXCEPT ![t] = "idle"]
    /\ entry' = [entry EXCEPT ![t] = NoEntry]
    /\ logLine' = [logLine EXCEPT ![t] = ""]
    /\ UNCHANGED <<fs, fs0, constructed, maxFileSize, maxBackups, formatter, isOpen,
                   currentSize, fileMutex, issued, written, dropped, nRotations,
                   nFailed, cerr>>
    /\ UNCHANGED nSizeCalls
    /\ UNCHANGED nonSinkVars

\* the lock_guard is destroyed and write() returns
WriteUnlock(t) ==
    /\ pc[t] = "unlock"
    /\ fileMutex' = 0
    /\ pc' = [pc EXCEPT ![t] = "idle"]
    /\ entry' = [entry EXCEPT ![t] = NoEntry]
    /\ logLine' = [logLine EXCEPT ![t] = ""]
    /\ UNCHANGED <<fs, fs0, constructed, maxFileSize, maxBackups, formatter, isOpen,
                   currentSize, issued, written, dropped, nRotations, nFailed, cerr>>
    /\ UNCHANGED nSizeCalls
    /\ UNCHANGED nonSinkVars

(***************************************************************************)
(* The sink's specification                                                *)
(***************************************************************************)
\* what is on disk before the sink is constructed
\* getCurrentSize(): std::lock_guard<std::mutex> lock(fileMutex)
GetCurrentSizeLock(t) ==
    /\ constructed
    /\ pc[t] = "idle"
    /\ nSizeCalls < MaxCalls
    /\ fileMutex = 0
    /\ fileMutex' = t
    /\ pc' = [pc EXCEPT ![t] = "size"]
    /\ nSizeCalls' = nSizeCalls + 1
    /\ UNCHANGED <<fs, fs0, constructed, maxFileSize, maxBackups, formatter, isOpen,
                   currentSize, entry, logLine, issued, written, dropped, nRotations,
                   nFailed, cerr>>
    /\ UNCHANGED nonSinkVars

\* getCurrentSize(): return currentSize, the lock_guard is destroyed
GetCurrentSizeReturn(t) ==
    /\ pc[t] = "size"
    /\ fileMutex' = 0
    /\ pc' = [pc EXCEPT ![t] = "idle"]
    /\ UNCHANGED <<fs, fs0, constructed, maxFileSize, maxBackups, formatter, isOpen,
                   currentSize, entry, logLine, issued, written, dropped, nRotations,
                   nFailed, cerr, nSizeCalls>>
    /\ UNCHANGED nonSinkVars

PreBase == {Absent, FileOf(<<OldLine>>)}
PreBackups == {{}, {1}, {MaxIdx}}

\* the functions that lock a mutex around the construction of the singleton
InitFunctions == {"getInstance", "initialize"}
NoInitArg == [name |-> "", level |-> INFO]

\* Logger *Logger::instance = nullptr, nobody calling
InitSingletonWith(shared) ==
    /\ sharedMutex = shared
    /\ loggers = <<>>
    /\ instance = 0
    /\ initMutex = [f \in InitFunctions |-> 0]
    /\ spc = [t \in Threads |-> "idle"]
    /\ sarg = [t \in Threads |-> NoInitArg]
    /\ returned = {}
    /\ nSCalls = 0
    /\ initCalls = <<>>

\* the files the test registers sinks for
RegPaths == {"test_msg_only.log", "test_compact.log", "test_full.log", "test_custom.log"}
NoSink == [path |-> "", fmt |-> ""]

\* registerFileRotatingHandler not yet called, none of the files on disk
RegisterAtRest ==
    /\ static3 = NoSink
    /\ static4 = NoSink
    /\ regHandlers = <<>>
    /\ regFiles = [p \in RegPaths |-> Absent]
    /\ requested = <<>>
    /\ regLogged = <<>>

\* getCurrentTimestamp not yet called at microsecond u of the second
StampAt(u) ==
    /\ tsMicros = u
    /\ tsFraction = ""

\* static CLogHandler g_c_handler = nullptr, nobody in logger_register_handler
AdapterAtRest ==
    /\ g_c_handler = 0
    /\ cpc = [t \in Threads |-> "idle"]
    /\ carg = [t \in Threads |-> 0]
    /\ cregs = <<>>
    /\ cpushed = <<>>
    /\ cinvoked = <<>>

RECURSIVE Registry(_)
\* what the registry calls made so far leave registered in a Logger that
\* starts with the console handler: registerHandler adds at the end,
\* clearHandlers leaves nothing, setHandler(h) leaves h alone
Registry(calls) ==
    IF calls = <<>> THEN <<"console">>
    ELSE LET c == calls[Len(calls)]
             before == Registry(SubSeq(calls, 1, Len(calls) - 1))
         IN CASE c.op = "register" -> Append(before, c.handler)
              [] c.op = "clear" -> <<>>
              [] c.op = "set" -> <<c.handler>>

\* a Logger constructed at the level given, after the registry calls given
InitLoggerAfter(level, calls) ==
    /\ currentLevel = level
    /\ handlers = Registry(calls)
    /\ handlersMutex = 0
    /\ lpc = [t \in Threads |-> "idle"]
    /\ larg = [t \in Threads |-> NoArg]
    /\ lentry = [t \in Threads |-> NoEntry]
    /\ lidx = [t \in Threads |-> 0]
    /\ delivered = <<>>
    /\ nCalls = 0
    /\ decided = <<>>
    /\ lout = [t \in Threads |-> "ok"]
    /\ escaped = <<>>
    /\ ops = calls
    /\ overtaken = {}

\* Logger::Logger(): the level given, one registered handler
InitLoggerAt(level) ==
    /\ currentLevel = level
    /\ handlers = <<"console">>
    /\ handlersMutex = 0
    /\ lpc = [t \in Threads |-> "idle"]
    /\ larg = [t \in Threads |-> NoArg]
    /\ lentry = [t \in Threads |-> NoEntry]
    /\ lidx = [t \in Threads |-> 0]
    /\ delivered = <<>>
    /\ nCalls = 0
    /\ decided = <<>>
    /\ lout = [t \in Threads |-> "ok"]
    /\ escaped = <<>>
    /\ ops = <<>>
    /\ overtaken = {}

InitSinkOn(files) ==
    /\ fs = files
    /\ fs0 = files
    /\ constructed = FALSE
    /\ maxFileSize = 0
    /\ maxBackups = 0
    /\ formatter = "messageOnly"
    /\ isOpen = FALSE
    /\ currentSize = 0
    /\ fileMutex = 0
    /\ pc = [t \in Threads |-> "idle"]
    /\ entry = [t \in Threads |-> NoEntry]
    /\ logLine = [t \in Threads |-> ""]
    /\ issued = <<>>
    /\ written = <<>>
    /\ dropped = <<>>
    /\ nRotations = 0
    /\ nFailed = 0
    /\ cerr = <<>>
    /\ nSizeCalls = 0

\* a disk with some files on it, the sink not yet constructed, a Logger at INFO
InitSink ==
    /\ \E b \in PreBase, S \in PreBackups :
          InitSinkOn([p \in Paths |-> IF p = Base THEN b
                                      ELSE IF p \in S THEN FileOf(<<OldLine>>) ELSE Absent])
    /\ InitLoggerAt(INFO)
    /\ InitSingletonWith(FALSE)
    /\ RegisterAtRest
    /\ StampAt(0)
    /\ AdapterAtRest

NextSink ==
    \/ \E m \in MaxFileSizes, k \in BackupCounts, f \in Formatters, ok \in BOOLEAN :
          Construct(m, k, f, ok)
    \/ \E t \in Threads : WriteCall(t)
    \/ \E t \in Threads, msg \in Messages : WriteLock(t, msg)
    \/ \E t \in Threads : WriteCheck(t)
    \/ \E t \in Threads : WritePut(t)
    \/ \E t \in Threads : WriteUnlock(t)

SpecSink == InitSink /\ [][NextSink]_vars

(***************************************************************************)
(* One thread writing a fixed series of equally long lines to a sink       *)
(* constructed on an absent file: the run of the rotation scenario.        *)
(***************************************************************************)
Scenario == [maxSize |-> 1024, maxBackups |-> 2, formatter |-> "messageOnly",
             lines |-> 50, lineBytes |-> 30]

\* the i-th message: with its newline the rendered line has lineBytes bytes
ScenarioMessage(i) ==
    PadRight("message " \o PadLeft(ToDecimal(i), 2, "0") \o " ",
             Scenario.lineBytes - 1, "x")

ScenarioLines(from, to) == [k \in 1..(to - from + 1) |-> ScenarioMessage(from + k - 1) \o "\n"]

InitScenario ==
    /\ InitSinkOn([p \in Paths |-> Absent])
    /\ InitLoggerAt(INFO)
    /\ InitSingletonWith(FALSE)
    /\ RegisterAtRest
    /\ StampAt(0)
    /\ AdapterAtRest

NextScenario ==
    \/ \E ok \in BOOLEAN :
          Construct(Scenario.maxSize, Scenario.maxBackups, Scenario.formatter, ok)
    \/ WriteCallUpTo(1, Scenario.lines)
    \/ WriteLock(1, ScenarioMessage(Len(issued) + 1))
    \/ WriteCheck(1)
    \/ WritePut(1)
    \/ WriteUnlock(1)

SpecScenario == InitScenario /\ [][NextScenario]_vars

(***************************************************************************)
(* Logger: the level filter, the handler registry and the fan-out.         *)
(* A handler invocation is recorded in delivered; decided records what the *)
(* level filter did with each call.                                        *)
(***************************************************************************)
FilteredAtLevel(level, cur) == level <= cur

\* writeLog(): if (level < currentLevel) return;
Filtered(level, cur) == level < cur

NextHandlerReversed(hs, i) == hs[Len(hs) + 1 - i]

\* writeLog(): for (const auto &handler : handlers), the i-th iteration
NextHandler(hs, i) == hs[i]

\* writeLog() up to the construction of the entry
WriteLogFilter(t, level) ==
    /\ lpc[t] = "idle"
    /\ nCalls < MaxCalls
    /\ nCalls' = nCalls + 1
    /\ IF Filtered(level, currentLevel)
       THEN UNCHANGED <<lpc, lentry>>
       ELSE /\ lentry' = [lentry EXCEPT
                             ![t] = LogEntry(levelToString(level), "main", nCalls + 1, "m")]
            /\ lpc' = [lpc EXCEPT ![t] = "hlock"]
    /\ decided' = Append(decided, [id |-> nCalls + 1, level |-> level,
                                   threshold |-> currentLevel,
                                   passed |-> lpc'[t] = "hlock"])
    /\ UNCHANGED <<currentLevel, handlers, handlersMutex, larg, lidx, delivered>>
    /\ UNCHANGED <<lout, escaped>>
    /\ UNCHANGED ops
    /\ UNCHANGED overtaken
    /\ UNCHANGED nonLoggerVars

\* the dispatches that wait for handlersMutex with an entry built, and so
\* stamped, before that of thread t, each paired with the dispatch of t
Waiting(t) ==
    {<<lentry[u].lineNumber, lentry[t].lineNumber>> :
        u \in {v \in Threads : /\ lpc[v] = "hlock"
                                /\ lentry[v].lineNumber < lentry[t].lineNumber}}

\* a fan-out that does not wait for the mutex
WriteLogLockNoWait(t) ==
    /\ lpc[t] = "hlock"
    /\ handlersMutex' = t
    /\ lidx' = [lidx EXCEPT ![t] = 1]
    /\ lpc' = [lpc EXCEPT ![t] = "fanout"]
    /\ UNCHANGED <<currentLevel, handlers, larg, lentry, delivered, nCalls, decided>>
    /\ UNCHANGED <<lout, escaped>>
    /\ UNCHANGED ops
    /\ overtaken' = overtaken \cup Waiting(t)
    /\ UNCHANGED nonLoggerVars

\* writeLog(): std::lock_guard<std::mutex> lock(handlersMutex)
WriteLogLock(t) ==
    /\ lpc[t] = "hlock"
    /\ handlersMutex = 0
    /\ handlersMutex' = t
    /\ lidx' = [lidx EXCEPT ![t] = 1]
    /\ lpc' = [lpc EXCEPT ![t] = "fanout"]
    /\ UNCHANGED <<currentLevel, handlers, larg, lentry, delivered, nCalls, decided>>
    /\ UNCHANGED <<lout, escaped>>
    /\ UNCHANGED ops
    /\ overtaken' = overtaken \cup Waiting(t)
    /\ UNCHANGED nonLoggerVars

\* what a handler, an arbitrary std::function, may do when it is called:
\* return, throw, or call registerHandler / clearHandlers / setHandler of the
\* Logger it is registered with
HandlerOutcomes == {"ok", "throw", "relock"}

\* writeLog(): handler(entry), one iteration of the loop; out is what the
\* handler does
WriteLogInvoke(t, out) ==
    /\ lpc[t] = "fanout"
    /\ lout[t] = "ok"
    /\ lidx[t] <= Len(handlers)
    /\ delivered' = Append(delivered, [handler |-> NextHandler(handlers, lidx[t]),
                                       entry |-> lentry[t]])
    /\ lidx' = [lidx EXCEPT ![t] = lidx[t] + 1]
    /\ lout' = [lout EXCEPT ![t] = out]
    /\ UNCHANGED <<currentLevel, handlers, handlersMutex, lpc, larg, lentry, nCalls,
                   decided, escaped>>
    /\ UNCHANGED ops
    /\ UNCHANGED overtaken
    /\ UNCHANGED nonLoggerVars

\* a relock that succeeds, as a recursive mutex would allow, and appends to
\* the registry
WriteLogRelockRecursive(t, detected) ==
    /\ lpc[t] = "fanout"
    /\ lout[t] = "relock"
    /\ handlers' = Append(handlers, "custom")
    /\ lout' = [lout EXCEPT ![t] = "ok"]
    /\ UNCHANGED <<currentLevel, handlersMutex, lpc, larg, lentry, lidx, delivered,
                   nCalls, decided, escaped>>
    /\ UNCHANGED ops
    /\ UNCHANGED overtaken
    /\ UNCHANGED nonLoggerVars

\* the handler's call of registerHandler / clearHandlers / setHandler reaches
\* std::lock_guard<std::mutex> lock(impl->handlersMutex) on the thread that
\* holds handlersMutex.  Locking a std::mutex the caller owns is undefined:
\* the call blocks for ever, or, where the implementation detects the
\* deadlock, lock() throws std::system_error (resource_deadlock_would_occur)
WriteLogRelock(t, detected) ==
    /\ lpc[t] = "fanout"
    /\ lout[t] = "relock"
    /\ lout' = [lout EXCEPT ![t] = IF detected THEN "lockerror" ELSE "blocked"]
    /\ UNCHANGED <<currentLevel, handlers, handlersMutex, lpc, larg, lentry, lidx,
                   delivered, nCalls, decided, escaped>>
    /\ UNCHANGED ops
    /\ UNCHANGED overtaken
    /\ UNCHANGED nonLoggerVars

KeepOnThrow(t) == t

\* the lock_guard of writeLog is destroyed when an exception unwinds its block
ReleaseOnThrow(t) == 0

\* writeLog() has no try block: what the handler throws leaves the loop and
\* the function
WriteLogUnwind(t) ==
    /\ lpc[t] = "fanout"
    /\ lout[t] \in {"throw", "lockerror"}
    /\ escaped' = Append(escaped, [id |-> lentry[t].lineNumber, at |-> lidx[t] - 1,
                                   cause |-> lout[t]])
    /\ handlersMutex' = ReleaseOnThrow(t)
    /\ lpc' = [lpc EXCEPT ![t] = "idle"]
    /\ lentry' = [lentry EXCEPT ![t] = NoEntry]
    /\ lidx' = [lidx EXCEPT ![t] = 0]
    /\ lout' = [lout EXCEPT ![t] = "ok"]
    /\ UNCHANGED <<currentLevel, handlers, larg, delivered, nCalls, decided>>
    /\ UNCHANGED ops
    /\ UNCHANGED overtaken
    /\ UNCHANGED nonLoggerVars

\* writeLog(): the loop is over, the lock_guard is destroyed
WriteLogReturn(t) ==
    /\ lpc[t] = "fanout"
    /\ lout[t] = "ok"
    /\ lidx[t] > Len(handlers)
    /\ handlersMutex' = 0
    /\ lpc' = [lpc EXCEPT ![t] = "idle"]
    /\ lentry' = [lentry EXCEPT ![t] = NoEntry]
    /\ lidx' = [lidx EXCEPT ![t] = 0]
    /\ UNCHANGED <<currentLevel, handlers, larg, delivered, nCalls, decided>>
    /\ UNCHANGED <<lout, escaped>>
    /\ UNCHANGED ops
    /\ UNCHANGED overtaken
    /\ UNCHANGED nonLoggerVars

\* Logger::registerHandler(handler): lock, push_back, unlock
RegisterHandler(t, h) ==
    /\ lpc[t] = "idle"
    /\ nCalls < MaxCalls
    /\ handlersMutex = 0
    /\ nCalls' = nCalls + 1
    /\ handlers' = Append(handlers, h)
    /\ UNCHANGED <<currentLevel, handlersMutex, lpc, larg, lentry, lidx, delivered,
                   decided>>
    /\ UNCHANGED <<lout, escaped>>
    /\ ops' = Append(ops, [op |-> "register", handler |-> h])
    /\ UNCHANGED overtaken
    /\ UNCHANGED nonLoggerVars

\* Logger::clearHandlers(): lock, clear, unlock
ClearHandlers(t) ==
    /\ lpc[t] = "idle"
    /\ nCalls < MaxCalls
    /\ handlersMutex = 0
    /\ nCalls' = nCalls + 1
    /\ handlers' = <<>>
    /\ UNCHANGED <<currentLevel, handlersMutex, lpc, larg, lentry, lidx, delivered,
                   decided>>
    /\ UNCHANGED <<lout, escaped>>
    /\ ops' = Append(ops, [op |-> "clear", handler |-> NoArg])
    /\ UNCHANGED overtaken
    /\ UNCHANGED nonLoggerVars

SetHandlerClearNoLock(t, h) ==
    /\ lpc[t] = "idle"
    /\ nCalls < MaxCalls
    /\ nCalls' = nCalls + 1
    /\ handlers' = <<>>
    /\ larg' = [larg EXCEPT ![t] = h]
    /\ lpc' = [lpc EXCEPT ![t] = "spush"]
    /\ UNCHANGED <<currentLevel, handlersMutex, lentry, lidx, delivered, decided>>
    /\ UNCHANGED <<lout, escaped>>
    /\ ops' = Append(ops, [op |-> "set", handler |-> h])
    /\ UNCHANGED overtaken
    /\ UNCHANGED nonLoggerVars

\* a setHandler that keeps what is registered
SetHandlerKeeping(t, h) ==
    /\ lpc[t] = "idle"
    /\ nCalls < MaxCalls
    /\ handlersMutex = 0
    /\ nCalls' = nCalls + 1
    /\ handlersMutex' = t
    /\ handlers' = handlers
    /\ larg' = [larg EXCEPT ![t] = h]
    /\ lpc' = [lpc EXCEPT ![t] = "spush"]
    /\ UNCHANGED <<currentLevel, lentry, lidx, delivered, decided>>
    /\ UNCHANGED <<lout, escaped>>
    /\ ops' = Append(ops, [op |-> "set", handler |-> h])
    /\ UNCHANGED overtaken
    /\ UNCHANGED nonLoggerVars

\* Logger::setHandler(handler): lock, handlers.clear()
SetHandlerClear(t, h) ==
    /\ lpc[t] = "idle"
    /\ nCalls < MaxCalls
    /\ handlersMutex = 0
    /\ nCalls' = nCalls + 1
    /\ handlersMutex' = t
    /\ handlers' = <<>>
    /\ larg' = [larg EXCEPT ![t] = h]
    /\ lpc' = [lpc EXCEPT ![t] = "spush"]
    /\ UNCHANGED <<currentLevel, lentry, lidx, delivered, decided>>
    /\ UNCHANGED <<lout, escaped>>
    /\ ops' = Append(ops, [op |-> "set", handler |-> h])
    /\ UNCHANGED overtaken
    /\ UNCHANGED nonLoggerVars

\* Logger::setHandler(handler): handlers.push_back(handler), unlock
SetHandlerPush(t) ==
    /\ lpc[t] = "spush"
    /\ handlers' = Append(handlers, larg[t])
    /\ handlersMutex' = 0
    /\ larg' = [larg EXCEPT ![t] = NoArg]
    /\ lpc' = [lpc EXCEPT ![t] = "idle"]
    /\ UNCHANGED <<currentLevel, lentry, lidx, delivered, nCalls, decided>>
    /\ UNCHANGED <<lout, escaped>>
    /\ UNCHANGED ops
    /\ UNCHANGED overtaken
    /\ UNCHANGED nonLoggerVars

\* Logger::setLogLevel(level): one store, no lock
SetLogLevel(t, level) ==
    /\ lpc[t] = "idle"
    /\ nCalls < MaxCalls
    /\ nCalls' = nCalls + 1
    /\ currentLevel' = level
    /\ UNCHANGED <<handlers, handlersMutex, lpc, larg, lentry, lidx, delivered, decided>>
    /\ UNCHANGED <<lout, escaped>>
    /\ UNCHANGED ops
    /\ UNCHANGED overtaken
    /\ UNCHANGED nonLoggerVars

(***************************************************************************)
(* The logger's specification                                              *)
(***************************************************************************)
\* a Logger constructed at any level, no sink on an empty disk
InitLogger ==
    /\ InitSinkOn([p \in Paths |-> Absent])
    /\ \E level \in LogLevels : InitLoggerAt(level)
    /\ InitSingletonWith(FALSE)
    /\ RegisterAtRest
    /\ StampAt(0)
    /\ AdapterAtRest

NextLogger ==
    \/ \E t \in Threads, level \in LogLevels : WriteLogFilter(t, level)
    \/ \E t \in Threads : WriteLogLock(t)
    \/ \E t \in Threads, out \in HandlerOutcomes : WriteLogInvoke(t, out)
    \/ \E t \in Threads, detected \in BOOLEAN : WriteLogRelock(t, detected)
    \/ \E t \in Threads : WriteLogUnwind(t)
    \/ \E t \in Threads : WriteLogReturn(t)
    \/ \E t \in Threads, h \in HandlerIds : RegisterHandler(t, h)
    \/ \E t \in Threads : ClearHandlers(t)
    \/ \E t \in Threads, h \in HandlerIds : SetHandlerClear(t, h)
    \/ \E t \in Threads : SetHandlerPush(t)
    \/ \E t \in Threads, level \in LogLevels : SetLogLevel(t, level)

SpecLogger == InitLogger /\ [][NextLogger]_vars

(***************************************************************************)
(* The Logger and the rotating sink together: the handler "custom" is the  *)
(* std::bind(&FileRotatingHandler::write, &handler, _1) that               *)
(* registerFileRotatingHandler registers, so a fan-out that reaches it     *)
(* runs write() while it holds handlersMutex.  Threads also call write()   *)
(* and getCurrentSize() directly, and the registry functions.  Handlers    *)
(* return or throw; none calls back into the Logger.                       *)
(***************************************************************************)
\* what a handler that does not re-enter the Logger may do
PlainOutcomes == {"ok", "throw"}

\* writeLog(): handler(entry) where the handler is the console one
WriteLogInvokeConsole(t, out) ==
    /\ lpc[t] = "fanout"
    /\ lidx[t] <= Len(handlers)
    /\ NextHandler(handlers, lidx[t]) = "console"
    /\ WriteLogInvoke(t, out)

\* writeLog(): handler(entry) where the handler is the bound
\* FileRotatingHandler::write: write(entry) is entered on the thread that
\* holds handlersMutex
WriteLogInvokeSink(t) ==
    /\ lpc[t] = "fanout"
    /\ lout[t] = "ok"
    /\ lidx[t] <= Len(handlers)
    /\ NextHandler(handlers, lidx[t]) = "custom"
    /\ pc[t] = "idle"
    /\ lout' = [lout EXCEPT ![t] = "insink"]
    /\ pc' = [pc EXCEPT ![t] = "lock"]
    /\ UNCHANGED <<currentLevel, handlers, handlersMutex, lpc, larg, lentry, lidx,
                   delivered, nCalls, decided, escaped, ops, overtaken>>
    /\ UNCHANGED <<fs, fs0, constructed, maxFileSize, maxBackups, formatter, isOpen,
                   currentSize, fileMutex, entry, logLine, issued, written, dropped,
                   nRotations, nFailed, cerr, nSizeCalls>>
    /\ UNCHANGED <<singletonVars, registerVars, stampVars, adapterVars>>

\* write(entry) has returned to the loop of writeLog()
WriteLogSinkReturn(t) ==
    /\ lpc[t] = "fanout"
    /\ lout[t] = "insink"
    /\ pc[t] = "idle"
    /\ delivered' = Append(delivered, [handler |-> NextHandler(handlers, lidx[t]),
                                       entry |-> lentry[t]])
    /\ lidx' = [lidx EXCEPT ![t] = lidx[t] + 1]
    /\ lout' = [lout EXCEPT ![t] = "ok"]
    /\ UNCHANGED <<currentLevel, handlers, handlersMutex, lpc, larg, lentry, nCalls,
                   decided, escaped, ops, overtaken>>
    /\ UNCHANGED nonLoggerVars

\* thread t is in no call of the Logger
OutOfLogger(t) == lpc[t] = "idle"

\* thread t is in no call of the sink
OutOfSink(t) == pc[t] = "idle"

\* the write() calls made by the fan-out through the bound handler
SinkInvocations ==
    Cardinality({i \in 1..Len(delivered) : delivered[i].handler = "custom"})
       + Cardinality({t \in Threads : lout[t] = "insink"})

\* the calls the threads have made on the Logger and on the sink
CallsMade == nCalls + (WriteCalls - SinkInvocations) + nSizeCalls

\* thread t, in no call, may start one: the sink and the Logger are set up
\* before the threads start
MayCall(t) ==
    /\ constructed
    /\ OutOfLogger(t)
    /\ OutOfSink(t)
    /\ CallsMade < MaxCalls

\* the step thread t takes next inside a call it has started
Step(t) ==
    \/ WriteLogLock(t)
    \/ \E out \in PlainOutcomes : WriteLogInvokeConsole(t, out)
    \/ WriteLogInvokeSink(t)
    \/ WriteLogSinkReturn(t)
    \/ WriteLogUnwind(t)
    \/ WriteLogReturn(t)
    \/ SetHandlerPush(t)
    \/ WriteLock(t, "m")
    \/ WriteCheck(t)
    \/ WritePut(t)
    \/ WriteUnlock(t)
    \/ GetCurrentSizeReturn(t)

\* a Logger with the console handler and the handler bound to the sink, which
\* is about to be constructed on an empty disk
InitCalls ==
    /\ InitSinkOn([p \in Paths |-> Absent])
    /\ InitLoggerAfter(INFO, <<[op |-> "register", handler |-> "custom"]>>)
    /\ InitSingletonWith(FALSE)
    /\ RegisterAtRest
    /\ StampAt(0)
    /\ AdapterAtRest

NextCalls ==
    \/ \E m \in {0, 4}, ok \in BOOLEAN : Construct(m, 1, "messageOnly", ok)
    \/ \E t \in Threads : MayCall(t) /\ WriteLogFilter(t, INFO)
    \/ \E t \in Threads : WriteLogLock(t)
    \/ \E t \in Threads, out \in PlainOutcomes : WriteLogInvokeConsole(t, out)
    \/ \E t \in Threads : WriteLogInvokeSink(t)
    \/ \E t \in Threads : WriteLogSinkReturn(t)
    \/ \E t \in Threads : WriteLogUnwind(t)
    \/ \E t \in Threads : WriteLogReturn(t)
    \/ \E t \in Threads, h \in HandlerIds : MayCall(t) /\ RegisterHandler(t, h)
    \/ \E t \in Threads : MayCall(t) /\ ClearHandlers(t)
    \/ \E t \in Threads, h \in HandlerIds : MayCall(t) /\ SetHandlerClear(t, h)
    \/ \E t \in Threads : SetHandlerPush(t)
    \/ \E t \in Threads : MayCall(t) /\ WriteCall(t)
    \/ \E t \in Threads : WriteLock(t, "m")
    \/ \E t \in Threads : WriteCheck(t)
    \/ \E t \in Threads : WritePut(t)
    \/ \E t \in Threads : WriteUnlock(t)
    \/ \E t \in Threads : MayCall(t) /\ GetCurrentSizeLock(t)
    \/ \E t \in Threads : GetCurrentSizeReturn(t)

\* every thread that can take a step of its call eventually takes one
FairCalls == \A t \in Threads : WF_vars(Step(t))

SpecCalls == InitCalls /\ [][NextCalls]_vars /\ FairCalls

(***************************************************************************)
(* Concurrent dispatches on a Logger whose registry does not change: the   *)
(* threads call writeLog only.                                             *)
(***************************************************************************)
\* the registry calls made before the dispatches start
FanOutRegistries ==
    {<<>>,
     <<[op |-> "register", handler |-> "custom"]>>,
     <<[op |-> "register", handler |-> "custom"],
       [op |-> "register", handler |-> "console"]>>}

\* the severities of the records dispatched: one below the threshold INFO,
\* two that pass it
FanOutLevels == {DEBUG1, INFO, ERROR}

InitFanOut ==
    /\ InitSinkOn([p \in Paths |-> Absent])
    /\ \E calls \in FanOutRegistries : InitLoggerAfter(INFO, calls)
    /\ InitSingletonWith(FALSE)
    /\ RegisterAtRest
    /\ StampAt(0)
    /\ AdapterAtRest

NextFanOut ==
    \/ \E t \in Threads, level \in FanOutLevels : WriteLogFilter(t, level)
    \/ \E t \in Threads : WriteLogLock(t)
    \/ \E t \in Threads, out \in HandlerOutcomes : WriteLogInvoke(t, out)
    \/ \E t \in Threads, detected \in BOOLEAN : WriteLogRelock(t, detected)
    \/ \E t \in Threads : WriteLogUnwind(t)
    \/ \E t \in Threads : WriteLogReturn(t)

SpecFanOut == InitFanOut /\ [][NextFanOut]_vars

(***************************************************************************)
(* Observations used by the properties of the sink                         *)
(***************************************************************************)
RECURSIVE Count(_, _)
Count(seq, x) ==
    IF seq = <<>> THEN 0
    ELSE (IF Head(seq) = x THEN 1 ELSE 0) + Count(Tail(seq), x)

Range(seq) == {seq[i] : i \in 1..Len(seq)}

RECURSIVE BackupLines(_, _)
BackupLines(files, i) ==
    IF i < 0 THEN <<>> ELSE files[i].data \o BackupLines(files, i - 1)

\* every line on disk: <base>.MaxIdx, ..., <base>.0, then <base>
DiskLines(files) == BackupLines(files, MaxIdx) \o files[Base].data

Rendered(e) == Format(formatter, e) \o "\n"
RenderedAll(es) == [i \in 1..Len(es) |-> Rendered(es[i])]

\* no write call is in progress
Quiescent == constructed /\ \A t \in Threads : pc[t] = "idle"
NoBackupsAtStart == \A i \in BackupIdx : ~fs0[i].exists
EmptyDirAtStart == \A p \in Paths : ~fs0[p].exists

\* a step that executes rotate()
IsRotation == nRotations' = nRotations + 1
\* thread t's step from the size check to the write
IsCheck(t) == pc[t] = "check" /\ pc'[t] = "put"

(***************************************************************************)
(* C1  Rotation trigger: a write of a rendered line of length len (the     *)
(* formatter's output plus the newline) executes rotate() before writing   *)
(* if and only if currentSize + len > maxFileSize at that moment; nothing  *)
(* else rotates, whatever the number of writes made.                       *)
(***************************************************************************)
C1_RotationTrigger ==
    [][/\ \A t \in Threads :
            IsCheck(t) =>
                (IsRotation <=>
                    currentSize + Len(Format(formatter, entry[t])) + 1 > maxFileSize)
       /\ (nRotations' # nRotations) => (IsRotation /\ \E t \in Threads : IsCheck(t))
      ]_vars

\* two lines have filled the file to exactly maxFileSize without a rotation
C1_Witness ==
    /\ Quiescent
    /\ maxFileSize > 0
    /\ currentSize = maxFileSize
    /\ Len(written) = 2
    /\ nRotations = 0

(***************************************************************************)
(* C2  Backup chain shift: with maxBackups = K >= 1, a rotation none of    *)
(* whose file system calls fails moves the content of <base> to <base>.1   *)
(* and the content of every existing <base>.i (1 <= i < K) to <base>.(i+1).*)
(***************************************************************************)
C2_ChainShift ==
    [][(IsRotation /\ maxBackups >= 1 /\ nFailed' = 0)
         => /\ fs'[1] = fs[Base]
            /\ \A i \in 1..(maxBackups - 1) : fs[i].exists => fs'[i + 1] = fs[i]
      ]_vars

\* two rotations have moved the pre-existing content of <base> to <base>.2
C2_Witness ==
    /\ nFailed = 0
    /\ nRotations = 2
    /\ maxBackups = MaxBackupsCfg
    /\ NoBackupsAtStart
    /\ fs0[Base].exists
    /\ fs[2] = fs0[Base]
    /\ fs[1].exists /\ fs[1].data # <<>>

(***************************************************************************)
(* C3  Backup chain bound: starting without backup files, with K >= 1 the  *)
(* only backups that exist are among <base>.1 .. <base>.K; a rotation      *)
(* without failing call removes the content of <base>.K from disk and      *)
(* leaves <base>.(K+1) alone.                                              *)
(***************************************************************************)
C3_ChainBound ==
    /\ []((constructed /\ maxBackups >= 1 /\ NoBackupsAtStart)
            => \A i \in BackupIdx : fs[i].exists => i \in 1..maxBackups)
    /\ [][(IsRotation /\ maxBackups >= 1 /\ nFailed' = nFailed)
            => /\ dropped' = dropped \o fs[maxBackups].data
               /\ fs'[maxBackups + 1] = fs[maxBackups + 1]
         ]_vars

\* with K = 1 the backup has been deleted and replaced by a newer one
C3_Witness ==
    /\ maxBackups = 1
    /\ NoBackupsAtStart
    /\ nFailed = 0
    /\ nRotations >= 2
    /\ dropped # <<>>
    /\ fs[1].exists

(***************************************************************************)
(* C4  (the claim as stated) With maxBackups = 0, starting without backup  *)
(* files and with no failing file system call, no backup file exists after *)
(* any number of rotations.                                                *)
(***************************************************************************)
C4_NoHistory ==
    (constructed /\ maxBackups = 0 /\ NoBackupsAtStart /\ nFailed = 0)
        => \A i \in BackupIdx : ~fs[i].exists

(***************************************************************************)
(* C5  (the claim as stated, for K >= 1) When all writes have returned,    *)
(* the files together hold exactly one line per write call.                *)
(***************************************************************************)
C5_AllLinesKept ==
    (Quiescent /\ nFailed = 0 /\ EmptyDirAtStart /\ maxBackups >= 1)
        => Len(DiskLines(fs)) = Len(issued)

(***************************************************************************)
(* C5  (amended) The whole write runs under fileMutex, so no two writes    *)
(* interleave; every chunk on disk or removed from disk by a rotation is a *)
(* line that was there at the start or one complete written line; when all *)
(* writes have returned without a failing call, the lines written are the  *)
(* rendered records, one per call, and the files hold all of them unless a *)
(* rotation has removed a backup.                                          *)
(***************************************************************************)
C5_Linearizable ==
    /\ \A t \in Threads : pc[t] \in {"check", "put", "unlock"} => fileMutex = t
    /\ \A s \in Range(DiskLines(fs)) \cup Range(dropped) \cup Range(written)
                 \cup Range(DiskLines(fs0)) :
          Count(DiskLines(fs), s) + Count(dropped, s)
              = Count(DiskLines(fs0), s) + Count(written, s)
    /\ (Quiescent /\ nFailed = 0) => written = RenderedAll(issued)
    /\ (Quiescent /\ nFailed = 0 /\ dropped = <<>>)
          => Len(DiskLines(fs)) = Len(DiskLines(fs0)) + Len(issued)

\* one thread waits for the mutex while the other writes, after a rotation
\* has already removed lines from disk
C5_Witness ==
    /\ pc[1] = "put"
    /\ pc[2] = "lock"
    /\ nFailed = 0
    /\ dropped # <<>>
    /\ Len(written) >= 1

(***************************************************************************)
(* C6  Byte-counter consistency: whenever no write holds fileMutex and no  *)
(* file system call has failed, the file is open and currentSize is the    *)
(* on-disk size of <base>.                                                 *)
(***************************************************************************)
C6_CounterConsistent ==
    (constructed /\ fileMutex = 0 /\ nFailed = 0)
        => (isOpen /\ currentSize = getFileSize(fs[Base]))

\* a line was appended to a pre-existing file
C6_Witness ==
    /\ Quiescent
    /\ nFailed = 0
    /\ fs0[Base].exists
    /\ nRotations = 0
    /\ Len(written) >= 1
    /\ currentSize = SumLen(fs0[Base].data) + SumLen(written)

(***************************************************************************)
(* C7  Size seed: construction sets currentSize to the size X of a         *)
(* pre-existing file (0 if absent) and keeps its content; lines are        *)
(* appended after it; the first write rotates iff X + len > maxFileSize.   *)
(***************************************************************************)
C7_SizeSeed ==
    /\ [][(~constructed /\ constructed')
            => /\ currentSize' = (IF fs[Base].exists THEN SumLen(fs[Base].data) ELSE 0)
               /\ isOpen' => (fs'[Base].exists /\ fs'[Base].data = fs[Base].data)
         ]_vars
    /\ []((constructed /\ nRotations = 0) => fs[Base].data = fs0[Base].data \o written)
    /\ [][\A t \in Threads :
            (IsCheck(t) /\ nRotations = 0 /\ written = <<>>)
                => (IsRotation <=>
                       SumLen(fs0[Base].data) + Len(Format(formatter, entry[t])) + 1
                           > maxFileSize)
         ]_vars

\* the first line, which alone fits in maxFileSize, has rotated a pre-existing
\* file away
C7_Witness ==
    /\ Quiescent
    /\ nFailed = 0
    /\ fs0[Base].data # <<>>
    /\ Len(written) = 1
    /\ SumLen(written) <= maxFileSize
    /\ nRotations = 1
    /\ fs[1] = fs0[Base]
    /\ fs[Base].data = written

(***************************************************************************)
(* C8  (the claim as stated, for K >= 1 and a rotation whose reopen        *)
(* succeeds) Every rotation ends with currentSize = 0 and <base> a newly   *)
(* created, empty file, whatever the outcome of the remove and rename      *)
(* calls.                                                                  *)
(***************************************************************************)
C8_FreshAfterRotation ==
    [][(IsRotation /\ maxBackups >= 1 /\ isOpen')
         => (currentSize' = 0 /\ fs'[Base] = EmptyFile)]_vars

(***************************************************************************)
(* The singleton.  Src/Logger.cpp declares a function-local static         *)
(* initMutex in getInstance and another one in initialize; the inline      *)
(* definitions of Includes/Logger.hpp lock the one static instanceMutex.   *)
(* sharedMutex says which of the two is built.                             *)
(***************************************************************************)
\* the mutex function f locks
MutexOf(f) == IF sharedMutex THEN "getInstance" ELSE f

\* instance = new Logger(name, level)
NewLogger(name, level) ==
    /\ loggers' = Append(loggers, [name |-> name, level |-> level])
    /\ instance' = Len(loggers) + 1

\* getInstance(): the first if (instance == nullptr), outside the lock;
\* a non-null pointer is returned at once
GetInstanceCheck(t) ==
    /\ spc[t] = "idle"
    /\ nSCalls < MaxCalls
    /\ nSCalls' = nSCalls + 1
    /\ IF instance = 0
       THEN /\ spc' = [spc EXCEPT ![t] = "g_lock"]
            /\ UNCHANGED returned
       ELSE /\ returned' = returned \cup {instance}
            /\ UNCHANGED spc
    /\ UNCHANGED <<sharedMutex, loggers, instance, initMutex, sarg>>
    /\ UNCHANGED initCalls
    /\ UNCHANGED nonSingletonVars

\* getInstance(): lock_guard(initMutex) and the second if (instance == nullptr)
GetInstanceLock(t) ==
    /\ spc[t] = "g_lock"
    /\ initMutex[MutexOf("getInstance")] = 0
    /\ initMutex' = [initMutex EXCEPT ![MutexOf("getInstance")] = t]
    /\ spc' = [spc EXCEPT ![t] = IF instance = 0 THEN "g_new" ELSE "g_ret"]
    /\ UNCHANGED <<sharedMutex, loggers, instance, sarg, returned, nSCalls>>
    /\ UNCHANGED initCalls
    /\ UNCHANGED nonSingletonVars

\* getInstance(): instance = new Logger("Logger", LogLevel::INFO)
GetInstanceNew(t) ==
    /\ spc[t] = "g_new"
    /\ NewLogger("Logger", INFO)
    /\ spc' = [spc EXCEPT ![t] = "g_ret"]
    /\ UNCHANGED <<sharedMutex, initMutex, sarg, returned, nSCalls>>
    /\ UNCHANGED initCalls
    /\ UNCHANGED nonSingletonVars

\* getInstance(): the lock_guard is destroyed; return instance
GetInstanceReturn(t) ==
    /\ spc[t] = "g_ret"
    /\ initMutex' = [initMutex EXCEPT ![MutexOf("getInstance")] = 0]
    /\ returned' = returned \cup {instance}
    /\ spc' = [spc EXCEPT ![t] = "idle"]
    /\ UNCHANGED <<sharedMutex, loggers, instance, sarg, nSCalls>>
    /\ UNCHANGED initCalls
    /\ UNCHANGED nonSingletonVars

\* an initialize that constructs whether or not there is an instance
InitializeLockAlways(t, name, level) ==
    /\ spc[t] = "idle"
    /\ nSCalls < MaxCalls
    /\ initMutex[MutexOf("initialize")] = 0
    /\ nSCalls' = nSCalls + 1
    /\ initMutex' = [initMutex EXCEPT ![MutexOf("initialize")] = t]
    /\ sarg' = [sarg EXCEPT ![t] = [name |-> name, level |-> level]]
    /\ spc' = [spc EXCEPT ![t] = "i_new"]
    /\ UNCHANGED <<sharedMutex, loggers, instance, returned>>
    /\ initCalls' = Append(initCalls, [name |-> name, level |-> level,
                                      found |-> instance])
    /\ UNCHANGED nonSingletonVars

\* initialize(name, level): lock_guard(initMutex) and if (instance == nullptr);
\* with an instance already there the call returns
InitializeLock(t, name, level) ==
    /\ spc[t] = "idle"
    /\ nSCalls < MaxCalls
    /\ initMutex[MutexOf("initialize")] = 0
    /\ nSCalls' = nSCalls + 1
    /\ IF instance = 0
       THEN /\ initMutex' = [initMutex EXCEPT ![MutexOf("initialize")] = t]
            /\ sarg' = [sarg EXCEPT ![t] = [name |-> name, level |-> level]]
            /\ spc' = [spc EXCEPT ![t] = "i_new"]
       ELSE UNCHANGED <<initMutex, sarg, spc>>
    /\ UNCHANGED <<sharedMutex, loggers, instance, returned>>
    /\ initCalls' = Append(initCalls, [name |-> name, level |-> level,
                                      found |-> instance])
    /\ UNCHANGED nonSingletonVars

\* initialize(): instance = new Logger(name, level); the lock_guard is destroyed
InitializeNew(t) ==
    /\ spc[t] = "i_new"
    /\ NewLogger(sarg[t].name, sarg[t].level)
    /\ initMutex' = [initMutex EXCEPT ![MutexOf("initialize")] = 0]
    /\ sarg' = [sarg EXCEPT ![t] = NoInitArg]
    /\ spc' = [spc EXCEPT ![t] = "idle"]
    /\ UNCHANGED <<sharedMutex, returned, nSCalls>>
    /\ UNCHANGED initCalls
    /\ UNCHANGED nonSingletonVars

\* the component names and levels the callers pass to initialize
InitNames == {"App", "Test"}
InitLevels == {DEBUG1, ERROR}

\* no Logger yet, either build, the sink and the dispatcher not in use
InitSingleton ==
    /\ InitSinkOn([p \in Paths |-> Absent])
    /\ InitLoggerAt(INFO)
    /\ \E shared \in BOOLEAN : InitSingletonWith(shared)
    /\ RegisterAtRest
    /\ StampAt(0)
    /\ AdapterAtRest

NextSingleton ==
    \/ \E t \in Threads : GetInstanceCheck(t)
    \/ \E t \in Threads : GetInstanceLock(t)
    \/ \E t \in Threads : GetInstanceNew(t)
    \/ \E t \in Threads : GetInstanceReturn(t)
    \/ \E t \in Threads, name \in InitNames, level \in InitLevels :
          InitializeLock(t, name, level)
    \/ \E t \in Threads : InitializeNew(t)

SpecSingleton == InitSingleton /\ [][NextSingleton]_vars

(***************************************************************************)
(* registerFileRotatingHandler, as the rotation test calls it: every call  *)
(* names a path not used before.  Each overload keeps its handler in a     *)
(* function-local static, which is constructed by the first call that      *)
(* reaches it; each call registers a binding of write to that handler.     *)
(* The sinks are given a maximum size no line of the model reaches, so the *)
(* writes of this component append without rotating.                       *)
(***************************************************************************)
\* the message of the records the test logs
RegMessages == {"Log message"}

\* the formatters the test passes to the overload with a formatter
RegFormatters == {"messageOnly", "compact", "timeAndLevel"}

\* static FileRotatingHandler handler(path, ...): constructed once
StaticInit(static, path, fmt) ==
    IF static = NoSink THEN [path |-> path, fmt |-> fmt] ELSE static

\* the constructor opens (creates) the file of a handler that is constructed
StaticOpen(files, static, path) ==
    IF static = NoSink /\ ~fileExists(files[path])
    THEN [files EXCEPT ![path] = EmptyFile]
    ELSE files

\* the handler object a registered binding refers to
BoundSink(h) == IF h = "static3" THEN static3 ELSE static4

\* registerFileRotatingHandler(path, maxSize, maxBackups)
RegisterFRH3(path) ==
    /\ \A i \in 1..Len(requested) : requested[i].path # path
    /\ static3' = StaticInit(static3, path, "default")
    /\ regFiles' = StaticOpen(regFiles, static3, path)
    /\ regHandlers' = Append(regHandlers, "static3")
    /\ requested' = Append(requested, [path |-> path, fmt |-> "default"])
    /\ UNCHANGED <<static4, regLogged>>
    /\ UNCHANGED nonRegisterVars

\* registerFileRotatingHandler(path, maxSize, maxBackups, formatter)
RegisterFRH4(path, fmt) ==
    /\ \A i \in 1..Len(requested) : requested[i].path # path
    /\ static4' = StaticInit(static4, path, fmt)
    /\ regFiles' = StaticOpen(regFiles, static4, path)
    /\ regHandlers' = Append(regHandlers, "static4")
    /\ requested' = Append(requested, [path |-> path, fmt |-> fmt])
    /\ UNCHANGED <<static3, regLogged>>
    /\ UNCHANGED nonRegisterVars

RECURSIVE WriteEach(_, _, _)
\* writeLog's loop over the bindings hs: each appends the entry, rendered by
\* the formatter of its handler, to the file of its handler
WriteEach(files, hs, e) ==
    IF hs = <<>> THEN files
    ELSE LET sink == BoundSink(Head(hs))
             line == Format(sink.fmt, e) \o "\n"
         IN WriteEach([files EXCEPT ![sink.path] = FileOf(Append(@.data, line))],
                      Tail(hs), e)

\* a record that passes the threshold is dispatched
RegDispatch(msg) ==
    /\ Len(regLogged) < MaxCalls
    /\ LET e == LogEntry(levelToString(INFO), "main", Len(regLogged) + 1, msg)
       IN /\ regFiles' = WriteEach(regFiles, regHandlers, e)
          /\ regLogged' = Append(regLogged, [entry |-> e, after |-> Len(requested)])
    /\ UNCHANGED <<static3, static4, regHandlers, requested>>
    /\ UNCHANGED nonRegisterVars

InitRegister ==
    /\ InitSinkOn([p \in Paths |-> Absent])
    /\ InitLoggerAt(INFO)
    /\ InitSingletonWith(FALSE)
    /\ RegisterAtRest
    /\ StampAt(0)
    /\ AdapterAtRest

NextRegister ==
    \/ \E path \in RegPaths : RegisterFRH3(path)
    \/ \E path \in RegPaths, fmt \in RegFormatters : RegisterFRH4(path, fmt)
    \/ \E msg \in RegMessages : RegDispatch(msg)

SpecRegister == InitRegister /\ [][NextRegister]_vars

(***************************************************************************)
(* Logger::Impl::getCurrentTimestamp: the fraction of a second.  The clock *)
(* reading is us_total, the microseconds within the second; the fraction   *)
(* is what is streamed after the '.'.                                      *)
(***************************************************************************)
\* the values taken by each three-digit group of the clock readings tried
Groups == {0, 1, 5, 9, 10, 50, 99, 100, 500, 999}
\* us_total = duration_cast<microseconds>(now.time_since_epoch()) % 1000000
MicroSamples == {m * 1000 + u : m \in Groups, u \in Groups}

\* oss << '.' << ms << std::setfill('0') << std::setw(3) << us:
\* ms = us_total / 1000 is streamed with the stream's initial width 0, the
\* fill and the width apply to us = us_total % 1000
Fraction(usTotal) ==
    ToDecimal(usTotal \div 1000) \o PadLeft(ToDecimal(usTotal % 1000), 3, "0")

GetCurrentTimestamp ==
    /\ tsFraction = ""
    /\ tsFraction' = Fraction(tsMicros)
    /\ UNCHANGED tsMicros
    /\ UNCHANGED nonStampVars

InitStamp ==
    /\ \E u \in MicroSamples : StampAt(u)
    /\ AdapterAtRest
    /\ InitSinkOn([p \in Paths |-> Absent])
    /\ InitLoggerAt(INFO)
    /\ InitSingletonWith(FALSE)
    /\ RegisterAtRest

NextStamp == GetCurrentTimestamp

SpecStamp == InitStamp /\ [][NextStamp]_vars

(***************************************************************************)
(* The C adapter, Src/Logger_C.cpp.  logger_register_handler stores its    *)
(* argument in the one static g_c_handler and registers with the Logger a  *)
(* wrapper, a lambda without captures that calls whatever g_c_handler      *)
(* holds when it runs.  C handlers are told apart by their address.        *)
(***************************************************************************)
\* the addresses of the C functions the callers register
CHandlers == {1, 2}

\* a null CLogHandler
NullHandler == 0

\* the lambda logger_register_handler registers
Wrapper == "c_wrapper"

\* logger_register_handler(handler): if (!handler) return; g_c_handler = handler
LoggerRegisterStore(t, h) ==
    /\ cpc[t] = "idle"
    /\ lpc[t] = "idle"
    /\ Len(cregs) < MaxCalls
    /\ cregs' = Append(cregs, h)
    /\ IF h = NullHandler
       THEN UNCHANGED <<g_c_handler, cpc, carg>>
       ELSE /\ g_c_handler' = h
            /\ cpc' = [cpc EXCEPT ![t] = "push"]
            /\ carg' = [carg EXCEPT ![t] = h]
    /\ UNCHANGED <<cpushed, cinvoked>>
    /\ UNCHANGED <<loggerVars, nonAdapterVars>>

\* logger_register_handler: Logger::getInstance()->registerHandler(wrapper),
\* which locks handlersMutex and appends
LoggerRegisterPush(t) ==
    /\ cpc[t] = "push"
    /\ handlersMutex = 0
    /\ handlers' = Append(handlers, Wrapper)
    /\ ops' = Append(ops, [op |-> "register", handler |-> Wrapper])
    /\ cpushed' = Append(cpushed, carg[t])
    /\ cpc' = [cpc EXCEPT ![t] = "idle"]
    /\ carg' = [carg EXCEPT ![t] = NullHandler]
    /\ UNCHANGED <<g_c_handler, cregs, cinvoked>>
    /\ UNCHANGED <<currentLevel, handlersMutex, lpc, larg, lentry, lidx, delivered,
                   nCalls, decided, lout, escaped, overtaken>>
    /\ UNCHANGED nonAdapterVars

\* writeLog(): handler(entry) where the handler is a wrapper:
\* if (g_c_handler) g_c_handler(timestamp, level, component, function, line,
\* message)
WriteLogInvokeWrapper(t) ==
    /\ lpc[t] = "fanout"
    /\ lout[t] = "ok"
    /\ lidx[t] <= Len(handlers)
    /\ NextHandler(handlers, lidx[t]) = Wrapper
    /\ delivered' = Append(delivered, [handler |-> Wrapper, entry |-> lentry[t]])
    /\ lidx' = [lidx EXCEPT ![t] = lidx[t] + 1]
    /\ cinvoked' = IF g_c_handler = NullHandler THEN cinvoked
                   ELSE Append(cinvoked, [handler |-> g_c_handler,
                                          id |-> lentry[t].lineNumber])
    /\ UNCHANGED <<g_c_handler, cpc, carg, cregs, cpushed>>
    /\ UNCHANGED <<currentLevel, handlers, handlersMutex, lpc, larg, lentry, nCalls,
                   decided, lout, escaped, ops, overtaken>>
    /\ UNCHANGED nonAdapterVars

\* the severities of the records logged through the adapter: one below the
\* threshold INFO, one that passes it
AdapterLevels == {DEBUG1, ERROR}

\* a Logger at INFO with its console handler, no C handler registered
InitAdapter ==
    /\ InitSinkOn([p \in Paths |-> Absent])
    /\ InitLoggerAt(INFO)
    /\ InitSingletonWith(FALSE)
    /\ RegisterAtRest
    /\ StampAt(0)
    /\ AdapterAtRest

NextAdapter ==
    \/ \E t \in Threads, h \in CHandlers \cup {NullHandler} : LoggerRegisterStore(t, h)
    \/ \E t \in Threads : LoggerRegisterPush(t)
    \/ \E t \in Threads, level \in AdapterLevels :
          cpc[t] = "idle" /\ WriteLogFilter(t, level)
    \/ \E t \in Threads : WriteLogLock(t)
    \/ \E t \in Threads : WriteLogInvokeConsole(t, "ok")
    \/ \E t \in Threads : WriteLogInvokeWrapper(t)
    \/ \E t \in Threads : WriteLogReturn(t)

SpecAdapter == InitAdapter /\ [][NextAdapter]_vars

(***************************************************************************)
(* Observations used by the properties of the logger                       *)
(***************************************************************************)
RECURSIVE InvokedFor(_, _)
\* the handlers invoked with the entry of call id, in the order of invocation
InvokedFor(evs, id) ==
    IF evs = <<>> THEN <<>>
    ELSE (IF Head(evs).entry.lineNumber = id THEN <<Head(evs).handler>> ELSE <<>>)
             \o InvokedFor(Tail(evs), id)

\* thread t's step out of the fan-out loop
IsReturn(t) == lpc[t] = "fanout" /\ lpc'[t] = "idle" /\ escaped' = escaped

(***************************************************************************)
(* C9  Threshold filtering: a writeLog call of severity S reaches the      *)
(* fan-out if and only if S >= T, T being currentLevel (the construction   *)
(* level or the value last stored by setLogLevel) when the call is made;   *)
(* the entry carries the name of S; no handler is ever invoked for a       *)
(* filtered call.                                                          *)
(***************************************************************************)
C9_ThresholdFilter ==
    /\ \A d \in Range(decided) :
          /\ d.passed <=> d.level >= d.threshold
          /\ ~d.passed => InvokedFor(delivered, d.id) = <<>>
    /\ \A ev \in Range(delivered) :
          \E d \in Range(decided) :
              /\ d.id = ev.entry.lineNumber
              /\ d.passed
              /\ ev.entry.level = levelToString(d.level)
    /\ \A t \in Threads :
          lpc[t] \in {"hlock", "fanout"}
              => \E d \in Range(decided) :
                    d.id = lentry[t].lineNumber /\ d.passed

\* the second call of the run, of severity WARN, met the threshold WARN and
\* was delivered to the console handler
C9_Witness ==
    /\ \A t \in Threads : lpc[t] = "idle"
    /\ currentLevel = WARN
    /\ handlers = <<"console">>
    /\ decided = <<[id |-> 2, level |-> WARN, threshold |-> WARN, passed |-> TRUE]>>
    /\ InvokedFor(delivered, 2) = <<"console">>

(***************************************************************************)
(* C10  Fan-out order: a writeLog call that passes the filter invokes the  *)
(* handlers registered when it takes handlersMutex, each position of the   *)
(* registry once, in registration order, on the calling thread; it returns *)
(* only when all of them have been invoked, and nothing is invoked for it  *)
(* afterwards.  A handler registered twice is invoked twice.               *)
(***************************************************************************)
C10_FanOutOrder ==
    /\ [](\A t \in Threads :
            lpc[t] = "fanout"
                => /\ handlersMutex = t
                   /\ lidx[t] \in 1..(Len(handlers) + 1)
                   /\ InvokedFor(delivered, lentry[t].lineNumber)
                          = SubSeq(handlers, 1, lidx[t] - 1))
    /\ [][/\ \A t \in Threads :
               /\ IsReturn(t)
                     => /\ InvokedFor(delivered, lentry[t].lineNumber) = handlers
                        /\ delivered' = delivered
               /\ lpc[t] = "fanout" => handlers' = handlers
          /\ delivered' # delivered
               => \E t \in Threads :
                     /\ lpc[t] = "fanout" /\ lpc'[t] = "fanout"
                     /\ lidx'[t] = lidx[t] + 1
                     /\ delivered' = Append(delivered,
                                            [handler |-> handlers[lidx[t]],
                                             entry |-> lentry[t]])
         ]_vars

\* a call has returned after invoking twice the handler that is registered
\* twice
C10_Witness ==
    /\ \A t \in Threads : lpc[t] = "idle"
    /\ handlers = <<"console", "console">>
    /\ Len(delivered) = 2
    /\ InvokedFor(delivered, 2) = handlers
    /\ delivered[1] = delivered[2]

(***************************************************************************)
(* C11  Registry mutations are linearized with dispatch: a fan-out and a   *)
(* registry mutation never overlap; the registry does not change while a   *)
(* fan-out is in progress, so the handlers a dispatch invokes are the      *)
(* whole registry as it was between two mutations; the empty registry in   *)
(* the middle of setHandler exists only while setHandler holds the mutex   *)
(* and no dispatch starts or runs its fan-out on it.                       *)
(***************************************************************************)
C11_RegistryLinearized ==
    /\ [](\A t \in Threads : lpc[t] \in {"fanout", "spush"} => handlersMutex = t)
    /\ [](\A u \in Threads :
            lpc[u] = "spush"
                => /\ handlers = <<>>
                   /\ \A t \in Threads : lpc[t] # "fanout")
    /\ [][\A t \in Threads :
            /\ (lpc[t] = "hlock" /\ lpc'[t] = "fanout")
                  => (handlersMutex = 0 /\ \A u \in Threads : lpc[u] # "spush")
            /\ lpc[t] = "fanout" => handlers' = handlers
            /\ IsReturn(t) => InvokedFor(delivered, lentry[t].lineNumber) = handlers
         ]_vars

\* a dispatch that passed the filter waits for the mutex while setHandler
\* has cleared the registry and not yet appended the new handler
C11_Witness ==
    /\ lpc[1] = "spush"
    /\ lpc[2] = "hlock"
    /\ handlers = <<>>
    /\ larg[1] = "custom"

(***************************************************************************)
(* C12  (the claim as stated) Whatever the interleaving of getInstance and *)
(* initialize calls, at most one Logger object is ever constructed and     *)
(* every getInstance call returns that object.                             *)
(***************************************************************************)
C12_OneLogger ==
    /\ Len(loggers) <= 1
    /\ returned \subseteq {1}

(***************************************************************************)
(* C13  (the claim as stated) After four registerFileRotatingHandler calls *)
(* with four distinct paths, the file of each call exists and holds every  *)
(* record dispatched after them exactly once, rendered by the formatter of *)
(* that call.                                                              *)
(***************************************************************************)
C13_EachCallItsSink ==
    (/\ Len(requested) = 4
     /\ \A k \in 1..Len(regLogged) : regLogged[k].after = 4)
        => \A i \in 1..4 :
              /\ regFiles[requested[i].path].exists
              /\ regFiles[requested[i].path].data
                    = [k \in 1..Len(regLogged) |->
                          Format(requested[i].fmt, regLogged[k].entry) \o "\n"]

(***************************************************************************)
(* C14  (the claim as stated) A sink whose file could not be opened at     *)
(* construction is a no-op from then on: no step opens it, changes a file  *)
(* or changes currentSize.  Stated for a sink constructed on an existing   *)
(* file, up to and including its first rotation.                           *)
(***************************************************************************)
C14_NoOpSink ==
    [][(constructed /\ ~isOpen /\ nRotations = 0 /\ fs[Base].exists)
         => (~isOpen' /\ fs' = fs /\ currentSize' = currentSize)]_vars

(***************************************************************************)
(* C15  (the claim as stated) Rotation failures are reported: a rotation   *)
(* in which a delete or rename step fails puts a message on the diagnostic *)
(* stream.  The rotations looked at are those whose reopen succeeds, so    *)
(* that a failure counted in the step is one of a delete or a rename.      *)
(***************************************************************************)
C15_FailureReported ==
    [][(IsRotation /\ isOpen' /\ nFailed' > nFailed) => Len(cerr') > Len(cerr)]_vars

(***************************************************************************)
(* C16  Rotation failures never abort the write or reach the caller.       *)
(* Whatever delete, rename or open calls have failed, a write that holds   *)
(* the lock can always take its next step; the step after the size check   *)
(* (and the rotation, if any) is the write to <base>, which appends the    *)
(* pending line to <base> and counts it whenever <base> is open; the step  *)
(* after that releases the lock and returns to the caller.  No step of a   *)
(* write leaves this sequence.                                             *)
(***************************************************************************)
C16_WriteSurvivesRotation ==
    /\ [](\A t \in Threads :
            /\ pc[t] = "check" => ENABLED WriteCheck(t)
            /\ pc[t] = "put" => ENABLED WritePut(t)
            /\ pc[t] = "unlock" => ENABLED WriteUnlock(t))
    /\ [][\A t \in Threads :
            /\ (pc[t] = "check" /\ pc'[t] # "check") => pc'[t] = "put"
            /\ (pc[t] = "put" /\ pc'[t] # "put")
                  => /\ pc'[t] = "unlock"
                     /\ isOpen => /\ fs'[Base].exists
                                  /\ fs'[Base].data = Append(fs[Base].data, logLine[t])
                                  /\ written' = Append(written, logLine[t])
                                  /\ currentSize' = currentSize + Len(logLine[t])
            /\ (pc[t] = "unlock" /\ pc'[t] # "unlock")
                  => (pc'[t] = "idle" /\ fileMutex' = 0)
        ]_vars

\* a write about to return whose rotation could neither delete the oldest
\* backup nor rename <base>: the line follows the old content of <base>
C16_Witness ==
    /\ pc[1] = "unlock"
    /\ nRotations = 1
    /\ nFailed = 2
    /\ maxBackups = 1
    /\ isOpen
    /\ fs[1] = fs0[1] /\ fs0[1].exists
    /\ fs0[Base].exists
    /\ fs[Base].data = Append(fs0[Base].data, logLine[1])
    /\ currentSize = Len(logLine[1])

(***************************************************************************)
(* C17  (the claim as stated) Timestamp format: for a clock reading of u   *)
(* microseconds within the second, the fraction rendered after the '.' is  *)
(* exactly six digits: u / 1000 zero-padded to three digits followed by    *)
(* u mod 1000 zero-padded to three digits.                                 *)
(***************************************************************************)
C17_SixDigitFraction ==
    tsFraction # ""
       => /\ Len(tsFraction) = 6
          /\ tsFraction = PadLeft(ToDecimal(tsMicros \div 1000), 3, "0")
                             \o PadLeft(ToDecimal(tsMicros % 1000), 3, "0")

\* thread t's step out of writeLog with an exception
IsUnwind(t) == lpc[t] = "fanout" /\ lpc'[t] = "idle" /\ escaped' # escaped

(***************************************************************************)
(* C18  Sink failure during fan-out.  When the k-th registered handler     *)
(* raises during a dispatch, the dispatch does nothing more than leave     *)
(* writeLog with the exception: the handlers 1..k have been invoked once   *)
(* each for the record, in order, the handlers after k are not invoked for *)
(* it then or later, and handlersMutex is released.  The mutex is only     *)
(* ever held by a thread inside a registry or dispatch call, so later      *)
(* calls can take it.                                                      *)
(***************************************************************************)
C18_SinkFailureEndsFanOut ==
    /\ [](\A k \in 1..Len(escaped) :
            Len(InvokedFor(delivered, escaped[k].id)) = escaped[k].at)
    /\ [](\A t \in Threads : handlersMutex = t => lpc[t] \in {"fanout", "spush"})
    /\ [][\A t \in Threads :
            (/\ lout[t] \in {"throw", "lockerror"}
             /\ <<lpc[t], lidx[t], lout[t]>>' # <<lpc[t], lidx[t], lout[t]>>)
               => /\ IsUnwind(t)
                  /\ lidx[t] - 1 \in 1..Len(handlers)
                  /\ escaped' = Append(escaped, [id |-> lentry[t].lineNumber,
                                                 at |-> lidx[t] - 1, cause |-> lout[t]])
                  /\ InvokedFor(delivered, lentry[t].lineNumber)
                         = SubSeq(handlers, 1, lidx[t] - 1)
                  /\ delivered' = delivered
                  /\ handlers' = handlers
                  /\ handlersMutex = t /\ handlersMutex' = 0
        ]_vars

\* the first of two registered handlers has raised: the second was not
\* invoked, the exception has left writeLog and the mutex is free
C18_Witness ==
    /\ handlers = <<"console", "custom">>
    /\ escaped = <<[id |-> 2, at |-> 1, cause |-> "throw"]>>
    /\ InvokedFor(delivered, 2) = <<"console">>
    /\ handlersMutex = 0
    /\ \A t \in Threads : lpc[t] = "idle"

C20_RotateOnEveryWrite ==
    (constructed /\ maxFileSize = 0 /\ nFailed = 0 /\ \A t \in Threads : pc[t] # "put")
       => /\ isOpen
          /\ nRotations = Len(written)
          /\ Len(written) >= 1
                => (fs[Base].exists /\ fs[Base].data = <<written[Len(written)]>>)
          /\ (maxBackups >= 1 /\ Len(written) >= 2)
                => (fs[1].exists /\ fs[1].data = <<written[Len(written) - 1]>>)
          /\ (maxBackups >= 1 /\ Len(written) = 1 /\ fs0[Base].exists)
                => fs[1] = fs0[Base]

\* two writes on a sink of maxSize 0 that keeps backups: the second line is
\* alone in <base>, the first alone in <base>.1
C20_Witness ==
    /\ Quiescent
    /\ maxFileSize = 0
    /\ maxBackups >= 1
    /\ nFailed = 0
    /\ nRotations = 2
    /\ written = <<"a\n", "bb\n">>
    /\ fs[Base].data = <<"bb\n">>
    /\ fs[1].data = <<"a\n">>

(***************************************************************************)
(* C21  Concrete scenario: maxSize = 1024, maxBackups = 2, the message-only *)
(* formatter, <base> absent at first, 50 lines of 30 bytes each and no     *)
(* failing file system call.  There is no rotation before the 35th write   *)
(* and exactly one from then on; once the 50 writes are done <base>.1      *)
(* holds the first 34 lines in order, <base> the last 16 in order, and     *)
(* <base>.2 does not exist.                                                *)
(***************************************************************************)
C21_OneRotation ==
    (constructed /\ nFailed = 0)
       => /\ \A k \in 1..Len(written) : Len(written[k]) = 30
          /\ nRotations = (IF Len(written) >= 35 \/ (Len(written) = 34 /\ pc[1] = "put")
                           THEN 1 ELSE 0)
          /\ (Len(written) = 50 /\ pc[1] = "idle")
                => /\ fs[1].exists /\ fs[1].data = ScenarioLines(1, 34)
                   /\ fs[Base].exists /\ fs[Base].data = ScenarioLines(35, 50)
                   /\ ~fs[2].exists

\* the 50 writes are done, none of the file system calls has failed
C21_Witness ==
    /\ Len(written) = 50
    /\ pc[1] = "idle"
    /\ nFailed = 0
    /\ nRotations = 1
    /\ Len(fs[1].data) = 34 /\ Len(fs[Base].data) = 16
    /\ currentSize = 480

(***************************************************************************)
(* C22  (the claim as stated) Default formatter of the rotating file sink: *)
(* a sink given no formatter renders each record as                        *)
(* [timestamp][level padded to 6][component][function:line padded to 20]   *)
(* followed by a space and the message, the line the default console       *)
(* handler prints.  Stated for the file of the sink registered without a   *)
(* formatter.                                                              *)
(***************************************************************************)
C22_DefaultAsConsole ==
    static3 # NoSink
       => \A i \in 1..Len(regFiles[static3.path].data) :
             \E k \in 1..Len(regLogged) :
                regFiles[static3.path].data[i]
                   = defaultConsoleLine(regLogged[k].entry) \o "\n"

(***************************************************************************)
(* C23  A new Logger has exactly one registered handler, the default       *)
(* console handler.  The registry is at all times what the registry calls  *)
(* made so far leave of it: k registerHandler calls after construction     *)
(* give k + 1 handlers with the console handler first, clearHandlers       *)
(* leaves none, setHandler(h) leaves exactly h (the console handler is     *)
(* removed too; between its clear and its push, under the lock, the        *)
(* registry is empty).  A record that passes the threshold is delivered to *)
(* exactly these handlers, in this order.                                  *)
(***************************************************************************)
C23_RegistryContents ==
    /\ [](handlers = (IF \E u \in Threads : lpc[u] = "spush"
                      THEN <<>> ELSE Registry(ops)))
    /\ [](nCalls = 0 => handlers = <<"console">>)
    /\ [][\A t \in Threads :
            IsReturn(t) => InvokedFor(delivered, lentry[t].lineNumber) = Registry(ops)]_vars

\* setHandler("custom") was called on the new Logger and the record
\* dispatched after it went to "custom" alone
C23_Witness ==
    /\ ops = <<[op |-> "set", handler |-> "custom"]>>
    /\ handlers = <<"custom">>
    /\ InvokedFor(delivered, 2) = <<"custom">>
    /\ \A t \in Threads : lpc[t] = "idle"

\* no write is between its size check and its return
NoWriteInProgress == \A t \in Threads : pc[t] \in {"idle", "lock"}

\* the sink was constructed, without failure since, on a file within the limit
WithinLimitAtStart == constructed /\ nFailed = 0 /\ getFileSize(fs0[Base]) <= maxFileSize

IsSuffix(s, w) == Len(s) <= Len(w) /\ s = SubSeq(w, Len(w) - Len(s) + 1, Len(w))

(***************************************************************************)
(* C25  Retained-history invariant: with no failing file system call and   *)
(* no file on disk at construction, the lines written are the rendered     *)
(* records in the order in which their writes took fileMutex, and the      *)
(* concatenation of <base>.K, ..., <base>.1, <base> (absent files skipped) *)
(* is a suffix of them: nothing is duplicated or reordered.  With K >= 1   *)
(* the lines missing from disk are exactly those of the backups that       *)
(* rotations have deleted, the oldest lines.                               *)
(***************************************************************************)
C25_RetainedSuffix ==
    (constructed /\ nFailed = 0 /\ EmptyDirAtStart)
       => /\ written = RenderedAll(SubSeq(issued, 1, Len(written)))
          /\ IsSuffix(BackupLines(fs, maxBackups) \o fs[Base].data, written)
          /\ maxBackups >= 1 => dropped \o DiskLines(fs) = written

\* three writes, the two threads taking part, on a sink keeping one backup:
\* the first line went with the deleted backup, the other two are on disk
C25_Witness ==
    /\ Quiescent
    /\ nFailed = 0
    /\ EmptyDirAtStart
    /\ maxBackups = 1
    /\ Len(written) = 3
    /\ dropped = <<written[1]>>
    /\ fs[1].data = <<written[2]>>
    /\ fs[Base].data = <<written[3]>>
    /\ written[2] # written[3]

(***************************************************************************)
(* C26  (the claim as stated) A rotation retires only a non-empty file: a  *)
(* write to a sink whose tracked size is 0 never triggers a rotation and   *)
(* changes no file before it writes, whatever the length of the pending    *)
(* line.                                                                   *)
(***************************************************************************)
C26_NoRotationAtZero ==
    [][\A t \in Threads :
          (IsCheck(t) /\ currentSize = 0) => (~IsRotation /\ fs' = fs)]_vars

(***************************************************************************)
(* C26  (amended) A write to a sink whose tracked size is 0 triggers a     *)
(* rotation exactly when the pending line alone is longer than maxSize.    *)
(* Otherwise no file changes before the write.  When it does rotate and no *)
(* file system call fails, an existing <base>, empty or not, is shifted    *)
(* into <base>.1, and an existing <base>.K is deleted.                     *)
(***************************************************************************)
C26_RotationAtZeroForLongLine ==
    [][\A t \in Threads :
          (IsCheck(t) /\ currentSize = 0)
             => /\ IsRotation <=> Len(logLine'[t]) > maxFileSize
                /\ ~IsRotation => fs' = fs
                /\ (IsRotation /\ nFailed' = nFailed /\ fs[Base].exists)
                      => /\ fs'[1] = fs[Base]
                         /\ fs'[Base] = EmptyFile
                         /\ (maxBackups >= 1 /\ fs[maxBackups].exists)
                               => dropped' = dropped \o fs[maxBackups].data
       ]_vars

\* the first write to a fresh sink carried a line longer than maxSize: the
\* empty <base> went to <base>.1 and the backup that was there was deleted
C26_Witness ==
    /\ pc[1] = "put"
    /\ nRotations = 1
    /\ nFailed = 0
    /\ maxFileSize = 4
    /\ maxBackups = 1
    /\ Len(logLine[1]) > maxFileSize
    /\ ~fs0[Base].exists
    /\ fs0[1].exists
    /\ fs[1] = EmptyFile
    /\ dropped = fs0[1].data
    /\ written = <<>>

\* the call ids of the records delivered, in the order of delivery
DeliveredIds == [i \in 1..Len(delivered) |-> delivered[i].entry.lineNumber]

\* every invocation made for record a precedes every one made for record b
DeliveredBefore(a, b) ==
    \A i, j \in 1..Len(delivered) :
       (DeliveredIds[i] = a /\ DeliveredIds[j] = b) => i < j

(***************************************************************************)
(* C27  Fan-outs do not interleave.  At most one thread is inside the      *)
(* fan-out loop, and of any two records delivered, all the invocations     *)
(* made for one precede all those made for the other: one dispatch's       *)
(* fan-out is over before the other's begins, and every handler that       *)
(* receives both records receives them in that same order.                 *)
(***************************************************************************)
C27_FanOutsSerial ==
    /\ Cardinality({t \in Threads : lpc[t] = "fanout"}) <= 1
    /\ \A a, b \in Range(DeliveredIds) :
          a # b => (DeliveredBefore(a, b) \/ DeliveredBefore(b, a))

\* one dispatch has invoked the first of two handlers while the other,
\* past the filter, waits for handlersMutex
C27_Witness ==
    /\ handlers = <<"console", "custom">>
    /\ lpc[1] = "fanout" /\ lidx[1] = 2 /\ lout[1] = "ok"
    /\ lpc[2] = "hlock"
    /\ DeliveredIds = <<1>>

(***************************************************************************)
(* The entry of a dispatch is built, and its timestamp read from the       *)
(* clock, when the call passes the filter and before it asks for the       *)
(* mutex.  The calls are numbered in that order, so a record with a        *)
(* smaller call id carries a timestamp that is not later.                  *)
(***************************************************************************)
StampedBefore(a, b) == a < b

(***************************************************************************)
(* C28  (the claim as stated) Delivery order matches timestamp order: a    *)
(* record with an earlier timestamp is never delivered after one with a    *)
(* later timestamp.                                                        *)
(***************************************************************************)
C28_StampOrder ==
    \A i, j \in 1..Len(delivered) :
       i < j => ~StampedBefore(DeliveredIds[j], DeliveredIds[i])

(***************************************************************************)
(* C28  (amended) Records are delivered in the order in which their        *)
(* dispatches take handlersMutex.  A record with an earlier timestamp is   *)
(* delivered after one with a later timestamp only if its dispatch was     *)
(* still waiting for the mutex when the later one took it; records of      *)
(* dispatches that do not overlap in this way are delivered in timestamp   *)
(* order.                                                                  *)
(***************************************************************************)
C28_StampOrderUnlessOvertaken ==
    /\ \A i, j \in 1..Len(delivered) :
          (i < j /\ StampedBefore(DeliveredIds[j], DeliveredIds[i]))
             => <<DeliveredIds[j], DeliveredIds[i]>> \in overtaken
    /\ \A p \in overtaken : StampedBefore(p[1], p[2])

\* both records are delivered, the one stamped second first
C28_Witness ==
    /\ DeliveredIds = <<2, 1>>
    /\ overtaken = {<<1, 2>>}
    /\ \A t \in Threads : lpc[t] = "idle"

(***************************************************************************)
(* C29  Deadlock freedom.  While the handlers do not call back into the    *)
(* Logger and every filesystem operation completes (with success or with   *)
(* failure), a thread takes handlersMutex only when it holds neither       *)
(* mutex, and takes fileMutex while it holds handlersMutex only from the   *)
(* fan-out: the order is registry lock, then file lock.  Under fair        *)
(* scheduling every call a thread has started returns.                     *)
(***************************************************************************)
\* thread t is inside a call of the Logger or of the sink
InCall(t) == ~OutOfLogger(t) \/ ~OutOfSink(t)

\* thread t takes the registry lock in this step
TakesRegistryLock(t) == handlersMutex # t /\ handlersMutex' = t

\* thread t takes the file lock in this step
TakesFileLock(t) == fileMutex # t /\ fileMutex' = t

C29_DeadlockFree ==
    /\ [](\A t \in Threads : (fileMutex = t) => lpc[t] # "hlock")
    /\ [][\A t \in Threads :
            /\ TakesRegistryLock(t) => (fileMutex # t /\ fileMutex' # t)
            /\ (TakesFileLock(t) /\ handlersMutex = t)
                  => (lpc[t] = "fanout" /\ lout[t] = "insink")]_vars
    /\ \A t \in Threads : InCall(t) ~> ~InCall(t)

\* one thread is in write() for the fan-out, holding both locks, while the
\* other waits for the file lock in a direct write()
C29_Witness ==
    /\ handlersMutex = 1 /\ fileMutex = 1
    /\ lpc[1] = "fanout" /\ lout[1] = "insink" /\ pc[1] = "put"
    /\ lpc[2] = "idle" /\ pc[2] = "lock"

(***************************************************************************)
(* C30  First initialization wins.  An initialize(name, level) call that   *)
(* finds the singleton in place returns at once: the instance pointer, the *)
(* Loggers constructed with their names and levels, the threshold and the  *)
(* registry of the Logger are what they were, and the call constructs      *)
(* nothing afterwards.  So the name and level of the instance are never    *)
(* those of a call that found an instance.                                 *)
(***************************************************************************)
\* this step is an initialize call that finds an instance
InitializeFindsInstance ==
    /\ Len(initCalls') = Len(initCalls) + 1
    /\ initCalls'[Len(initCalls')].found # 0

C30_FirstInitializationWins ==
    [][InitializeFindsInstance
         => /\ instance' = instance
            /\ loggers' = loggers
            /\ spc' = spc /\ sarg' = sarg /\ initMutex' = initMutex
            /\ currentLevel' = currentLevel
            /\ handlers' = handlers]_vars

\* getInstance() made the default Logger, then initialize("Test", DEBUG1) was
\* called and has returned: the Logger is still "Logger" at INFO
C30_Witness ==
    /\ initCalls = <<[name |-> "Test", level |-> DEBUG1, found |-> 1]>>
    /\ instance = 1
    /\ loggers = <<[name |-> "Logger", level |-> INFO]>>
    /\ \A t \in Threads : spc[t] = "idle"

(***************************************************************************)
(* C31  (the claim as stated) After logger_register_handler(h1) and then   *)
(* logger_register_handler(h2), h1 and h2 different, a record that passes  *)
(* the threshold invokes h1 exactly once and h2 exactly once; a call with  *)
(* a null handler registers nothing and leaves the handlers as they were.  *)
(* The second half holds.  The first does not: both wrappers call the      *)
(* handler stored last, so h2 is invoked twice and h1 not at all.          *)
(***************************************************************************)
\* how many times the C handler h has been called with the record id
TimesInvoked(h, id) ==
    Cardinality({i \in 1..Len(cinvoked) : cinvoked[i] = [handler |-> h, id |-> id]})

\* thread t has run every handler of the registry for its record
FanOutDone(t) == lpc[t] = "fanout" /\ lout[t] = "ok" /\ lidx[t] > Len(handlers)

\* exactly two registration calls were made, with different non-null handlers,
\* and both have returned
TwoRegistered ==
    /\ Len(cregs) = 2
    /\ cpushed = cregs
    /\ cregs[1] # cregs[2]

\* this step is a logger_register_handler call with a null handler
NullRegistration == cregs' = Append(cregs, NullHandler)

C31_EachHandlerOnce ==
    /\ [](\A t \in Threads :
            (TwoRegistered /\ FanOutDone(t))
               => \A h \in {cregs[1], cregs[2]} : TimesInvoked(h, lentry[t].lineNumber) = 1)
    /\ [][NullRegistration
            => /\ handlers' = handlers
               /\ g_c_handler' = g_c_handler
               /\ cpushed' = cpushed
               /\ cpc' = cpc]_vars

=============================================================================
